---------------------------- MODULE Spec2Model ----------------------------
(***************************************************************************)
(* The n-back trainer's core: the balanced sequence generator and the turn *)
(* state machine of useGameLogic (src/unnamed/part_003), driven by the     *)
(* GameScreen host (src/unnamed/part_012); the reward and achievement      *)
(* services (src/services) and the App handlers that apply them to the     *)
(* persisted progress (src/App.tsx).                                       *)
(*                                                                         *)
(* A stimulus is modelled by its id: the code compares stimuli by id only. *)
(* Time is counted in units of 500 ms; a timer is a record that holds the  *)
(* values its callback captured when it was scheduled, and the timers are  *)
(* kept in the order in which setTimeout was called.                       *)
(***************************************************************************)
EXTENDS Integers, Sequences, FiniteSets, TLC

VARIABLES
    \* session inputs (props of the hook), fixed for a session
    nLevel, gameLength, speed, stimuli, gameSequence,
    \* useState cells of useGameLogic
    turn, score, history, isGameOver, userResponded, showReviewHistory,
    lastResult, scoreHistory, currentStreak, maxStreak, incorrectPresses,
    \* GameScreen
    gameState,
    \* pending setTimeout callbacks, in scheduling order
    timers,
    \* observation of the run: the onResponse calls, the last operation, how
    \* often the timer's missed-match branch ran per position, the positions
    \* the turn timer resolved and those an accepted handleMatch resolved
    emitted, lastOp, missCount, timerElapsedOn, matchAcceptedOn,
    \* the generator run step by step (specification SpecGen)
    pc, sequence, turnTypes, shuffleIndex, balancedTurnTypes,
    \* useState cells of App, and what its save effect last wrote; screen is
    \* "GAME" while GameScreen is rendered and "START" on every other screen
    playerRewards, unlockedAchievements, newlyUnlocked, savedState,
    screen, lastGameHistory,
    \* the clock read by new Date()
    now,
    \* the argument and the locals of the last handleGameEnd call, and how
    \* often each achievement id was reported since the last progress reset
    stats, justUnlocked, starsEarned, wasPerfect, reportCount,
    \* processRewards applied to stored totals (specification SpecRewards):
    \* the totals at the start, the arguments so far, the last result
    startRewards, sessions, earned, newTotal

inputVars   == <<nLevel, gameLength, speed, stimuli, gameSequence>>
hookVars    == <<turn, score, history, isGameOver, userResponded,
                 showReviewHistory, lastResult, scoreHistory, currentStreak,
                 maxStreak, incorrectPresses>>
obsVars     == <<emitted, lastOp, missCount, timerElapsedOn,
                 matchAcceptedOn>>
genVars     == <<pc, sequence, turnTypes, shuffleIndex, balancedTurnTypes>>
sessionVars == <<hookVars, gameState, timers, obsVars>>
appVars     == <<playerRewards, unlockedAchievements, newlyUnlocked,
                 savedState, screen, lastGameHistory, now>>
gameEndVars == <<stats, justUnlocked, starsEarned, wasPerfect, reportCount>>
rewardVars  == <<startRewards, sessions, earned, newTotal>>
serviceVars == <<appVars, gameEndVars, rewardVars>>
vars        == <<inputVars, sessionVars, genVars, serviceVars>>

-----------------------------------------------------------------------------
(* Bounds of the model *)

MaxN       == 2      \* nLevel ranges over 1..MaxN in a session
MaxLen     == 4      \* gameLength ranges up to MaxLen in a session
MaxSpeed   == 3      \* settings.speed ranges over 1..MaxSpeed units of 500 ms
GenMaxN    == 2      \* nLevel ranges over 1..GenMaxN in a generator run
GenMaxLen  == 8      \* gameLength ranges over 0..GenMaxLen in a generator run
GenMaxPool == 3      \* pool length ranges over 0..GenMaxPool in a generator run
BalMaxLen  == 7      \* balanceTurnTypes is called on arrays of length 0..BalMaxLen
BalMaxStreak == 3    \* and with maxStreak ranging over 1..BalMaxStreak
MaxTier    == 10     \* stored reward tiers range up to MaxTier
MaxStarsToAdd == 8   \* starsToAdd ranges over 0..MaxStarsToAdd
MaxSessions == 2     \* processRewards is applied up to MaxSessions times
MaxNow     == 2      \* App handlers run while the clock is at most MaxNow
MaxLevel   == 2      \* stats.settings.nLevel ranges over 1..MaxLevel in App
MaxIncorrect == 1    \* stats.incorrectPresses ranges over 0..MaxIncorrect
AchMaxLevel == 3     \* nLevel ranges over 1..AchMaxLevel in checkAchievements
AchMaxStreak == 10   \* stats.maxStreak ranges over 0..AchMaxStreak there

Ids        == {"a", "b", "c"}
Undefined  == "undefined"       \* an array read out of range

-----------------------------------------------------------------------------
(* Helpers *)

Range(s) == {s[k] : k \in DOMAIN s}

Max(a, b) == IF a >= b THEN a ELSE b

RECURSIVE Pow2(_)
Pow2(k) == IF k <= 0 THEN 1 ELSE 2 * Pow2(k - 1)

\* arr[i] of a 0-based JavaScript array held as a 1-based sequence
At(arr, i) == IF i >= 0 /\ i < Len(arr) THEN arr[i + 1] ELSE Undefined

\* [arr[i], arr[j]] = [arr[j], arr[i]], 0-based
\* a swap that copies arr[j] over arr[i] and leaves arr[j] as it was
SwapAtCopiesOver(arr, i, j) ==
    [k \in DOMAIN arr |-> IF k = i + 1 THEN arr[j + 1] ELSE arr[k]]

SwapAt(arr, i, j) ==
    [k \in DOMAIN arr |-> IF k = i + 1 THEN arr[j + 1]
                          ELSE IF k = j + 1 THEN arr[i + 1] ELSE arr[k]]

-----------------------------------------------------------------------------
(* balanceTurnTypes; its parameter maxStreak is named streakLimit here *)

MaxPasses == 5
BalanceMaxStreak == 3

\* the window balanced.slice(i, i + streakLimit + 1) is full and all equal
AllSame(balanced, i, streakLimit) ==
    /\ i + streakLimit + 1 <= Len(balanced)
    /\ \A k \in i .. (i + streakLimit) : At(balanced, k) = At(balanced, i)

\* the inner search: the last j > i + streakLimit with a different value, or -1
SwapIndex(balanced, i, streakLimit) ==
    LET cand == {j \in (i + streakLimit + 1) .. (Len(balanced) - 1) :
                     At(balanced, j) # At(balanced, i)}
    IN  IF cand = {} THEN -1 ELSE CHOOSE j \in cand : \A k \in cand : k <= j

\* one pass of the for loop, from index i on
RECURSIVE BalancePass(_, _, _, _)
BalancePass(balanced, i, changesMade, streakLimit) ==
    IF i > Len(balanced) - streakLimit
    THEN [arr |-> balanced, changesMade |-> changesMade]
    ELSE IF AllSame(balanced, i, streakLimit)
              /\ SwapIndex(balanced, i, streakLimit) # -1
         THEN BalancePass(
                  SwapAt(balanced, i + streakLimit,
                         SwapIndex(balanced, i, streakLimit)),
                  i + 1, TRUE, streakLimit)
         ELSE BalancePass(balanced, i + 1, changesMade, streakLimit)

RECURSIVE BalanceLoop(_, _, _)
BalanceLoop(balanced, passes, streakLimit) ==
    IF passes >= MaxPasses THEN balanced
    ELSE LET r == BalancePass(balanced, 0, FALSE, streakLimit)
         IN  IF ~r.changesMade THEN r.arr
             ELSE BalanceLoop(r.arr, passes + 1, streakLimit)

BalanceTurnTypes(types, streakLimit) == BalanceLoop(types, 0, streakLimit)

\* TRUE when the while loop ends because a pass left changesMade false,
\* FALSE when it ends because passes reached maxPasses
RECURSIVE BalanceEndsOnQuietPass(_, _, _)
BalanceEndsOnQuietPass(balanced, passes, streakLimit) ==
    IF passes >= MaxPasses THEN FALSE
    ELSE LET r == BalancePass(balanced, 0, FALSE, streakLimit)
         IN  IF ~r.changesMade THEN TRUE
             ELSE BalanceEndsOnQuietPass(r.arr, passes + 1, streakLimit)

-----------------------------------------------------------------------------
(* gameSequence *)

\* getRandomStimulus with the exclusion list ignored
GetRandomStimulusNoExclusion(pool, exclude) == Range(pool)

\* getRandomStimulus: the set of stimuli Math.random may select
GetRandomStimulus(pool, exclude) ==
    LET excludeIds == Range(exclude) \ {Undefined}
        available  == SelectSeq(pool, LAMBDA s : s \notin excludeIds)
    IN  IF Len(available) = 0 THEN Range(pool) ELSE Range(available)

\* numMatches with Math.floor in the place of Math.round
NumMatchesFloored(remainingTurns) == Max(1, (33 * remainingTurns) \div 100)

\* Math.max(1, Math.round(remainingTurns * 0.33))
NumMatches(remainingTurns) == Max(1, (33 * remainingTurns + 50) \div 100)

\* the array of numMatches true followed by numNonMatches false
InitialTurnTypes(remainingTurns) ==
    [k \in 1 .. remainingTurns |-> k <= NumMatches(remainingTurns)]

\* the exclusions of a non-match position turnIndex
Exclusions(seq, turnIndex, n) ==
    IF n = 1 THEN <<At(seq, turnIndex - n), At(seq, turnIndex - 1)>>
    ELSE <<At(seq, turnIndex - n)>>

\* the stimuli that may be pushed at position turnIndex >= n
NextStimuli(pool, seq, turnIndex, n, isMatchTurn) ==
    IF isMatchTurn THEN {At(seq, turnIndex - n)}
    ELSE GetRandomStimulus(pool, Exclusions(seq, turnIndex, n))

\* every outcome of the Fisher-Yates loop from index i down to 1
RECURSIVE Shuffles(_, _)
Shuffles(arr, i) ==
    IF i <= 0 THEN {arr}
    ELSE UNION {Shuffles(SwapAt(arr, i, j), i - 1) : j \in 0 .. i}

\* every outcome of the initial block, from a prefix seq on
RECURSIVE InitialBlocks(_, _, _)
InitialBlocks(pool, seq, n) ==
    IF Len(seq) >= n THEN {seq}
    ELSE UNION {InitialBlocks(pool, Append(seq, s), n) :
                    s \in GetRandomStimulus(pool, seq)}

\* every outcome of the third loop, from a prefix seq on
RECURSIVE Completions(_, _, _, _)
Completions(pool, seq, types, n) ==
    IF Len(seq) - n >= Len(types) THEN {seq}
    ELSE UNION {Completions(pool, Append(seq, s), types, n) :
                    s \in NextStimuli(pool, seq, Len(seq), n,
                                      types[Len(seq) - n + 1])}

\* every value the useMemo of gameSequence may return
GameSequences(pool, n, len) ==
    IF Len(pool) < 2 THEN {<<>>}
    ELSE IF len - n <= 0 THEN InitialBlocks(pool, <<>>, n)
    ELSE UNION {
           UNION {Completions(pool, blk,
                              BalanceTurnTypes(t, BalanceMaxStreak), n) :
                      t \in Shuffles(InitialTurnTypes(len - n), len - n - 1)} :
               blk \in InitialBlocks(pool, <<>>, n)}

-----------------------------------------------------------------------------
(* Scoring constants and the values a render derives from the state *)

CorrectDelay    == 1      \* setTimeout(advanceTurn, 500)
MissReviewDelay == 2      \* setTimeout(..., 1000) of the missed-match branch

BasePoints == 10 * Pow2(nLevel - 1)

\* Math.ceil(basePoints / 2)
Penalty == (BasePoints + 1) \div 2

\* the isPaused prop GameScreen passes to the hook
PausedIn(gs) == gs # "playing"
IsPaused == PausedIn(gameState)

\* a turn timer effect for which no position is a match: an unanswered
\* match is never penalised
TimerActualMatchNever(t) == FALSE

\* actualMatch as the turn timer effect computes it for position t
TimerActualMatch(t) ==
    t >= nLevel /\ At(gameSequence, t) = At(gameSequence, t - nLevel)

\* actualMatch as handleMatch computes it
MatchActualMatch == At(gameSequence, turn) = At(gameSequence, turn - nLevel)

\* the penalty applied without the clamp at zero
PenalisedUnclamped(s) == s - Penalty

\* Math.max(0, s - penalty)
Penalised(s) == Max(0, s - Penalty)

\* the guard of handleMatch without its userResponded test
HandleMatchIgnoredNoRespondedTest ==
    turn < nLevel \/ IsPaused \/ Len(gameSequence) = 0

\* the guard of handleMatch without its turn < nLevel test
HandleMatchIgnoredNoLevelTest ==
    userResponded \/ IsPaused \/ Len(gameSequence) = 0

\* the guard of handleMatch: TRUE when the call returns at once
HandleMatchIgnored ==
    userResponded \/ turn < nLevel \/ IsPaused \/ Len(gameSequence) = 0

\* the guard of GameScreen.handleUserMatch
HandleUserMatchIgnored == gameState # "playing"

-----------------------------------------------------------------------------
(* What a render and its effects do after a handler has run *)

\* a maxStreak effect that copies currentStreak whatever its value
MaxStreakEffectCopies(newStreak) == newStreak

\* the maxStreak effect
MaxStreakEffect(newStreak) ==
    IF newStreak > maxStreak THEN newStreak ELSE maxStreak

\* a scoreHistory effect that pushes an entry on every run
ScoreHistoryEffectAlwaysPushes(newTurn, newScore, newResult) ==
    Append(scoreHistory,
           [turn |-> newTurn, score |-> newScore, result |-> newResult])

\* the scoreHistory effect
ScoreHistoryEffect(newTurn, newScore, newResult) ==
    IF Len(scoreHistory) = 0 \/ scoreHistory[Len(scoreHistory)].turn # newTurn
    THEN Append(scoreHistory,
                [turn |-> newTurn, score |-> newScore, result |-> newResult])
    ELSE scoreHistory

\* a GameScreen whose game-over effect leaves gameState alone
GameOverEffectKeepsState(newOver, gs) == gs

\* the game-over effect of GameScreen: setGameState('over')
GameOverEffect(newOver, gs) == IF newOver THEN "over" ELSE gs

TurnTimer(newTurn, newOver, newResp) ==
    [kind |-> "turn", rem |-> speed, capTurn |-> newTurn,
     capOver |-> newOver, capResponded |-> newResp]

\* a turn timer effect without the gameSequence.length === 0 test
TurnTimerEffectNoSeqTest(pending, newTurn, newPaused, newOver, newResp) ==
    IF <<newTurn, newPaused, newOver, newResp>>
           = <<turn, IsPaused, isGameOver, userResponded>>
    THEN pending
    ELSE LET cleared == SelectSeq(pending, LAMBDA t : t.kind # "turn")
         IN  IF newPaused \/ newOver \/ Len(stimuli) = 0
             THEN cleared
             ELSE Append(cleared, TurnTimer(newTurn, newOver, newResp))

\* a turn timer effect that arms a timer only for a new turn or a new
\* responded flag, not when isPaused alone changed
TurnTimerEffectNotOnResume(pending, newTurn, newPaused, newOver, newResp) ==
    IF <<newTurn, newPaused, newOver, newResp>>
           = <<turn, IsPaused, isGameOver, userResponded>>
    THEN pending
    ELSE LET cleared == SelectSeq(pending, LAMBDA t : t.kind # "turn")
         IN  IF newPaused \/ newOver \/ Len(stimuli) = 0
                  \/ Len(gameSequence) = 0
                  \/ <<newTurn, newResp>> = <<turn, userResponded>>
             THEN cleared
             ELSE Append(cleared, TurnTimer(newTurn, newOver, newResp))

\* the turn timer effect: when one of its dependencies changed, the cleanup
\* clears the old turn timer and the effect arms a new one unless guarded
TurnTimerEffect(pending, newTurn, newPaused, newOver, newResp) ==
    IF <<newTurn, newPaused, newOver, newResp>>
           = <<turn, IsPaused, isGameOver, userResponded>>
    THEN pending
    ELSE LET cleared == SelectSeq(pending, LAMBDA t : t.kind # "turn")
         IN  IF newPaused \/ newOver \/ Len(stimuli) = 0
                  \/ Len(gameSequence) = 0
             THEN cleared
             ELSE Append(cleared, TurnTimer(newTurn, newOver, newResp))

\* the renders that follow a handler: the hook's effects and GameScreen's
Render(pending, gs) ==
    /\ gameState' = GameOverEffect(isGameOver', gs)
    /\ timers' = TurnTimerEffect(pending, turn', PausedIn(gameState'),
                                 isGameOver', userResponded')
    /\ maxStreak' = MaxStreakEffect(currentStreak')
    /\ scoreHistory' = ScoreHistoryEffect(turn', score', lastResult')

-----------------------------------------------------------------------------
(* The state updates of the callbacks *)

\* advanceTurn as captured by a callback scheduled at (capTurn, capOver)
AdvanceTurn(capTurn, capOver) ==
    IF capOver
    THEN UNCHANGED <<history, turn, userResponded, isGameOver>>
    ELSE /\ history' = Append(history, At(gameSequence, capTurn))
         /\ IF capTurn < gameLength - 1
            THEN /\ turn' = turn + 1
                 /\ userResponded' = FALSE
                 /\ isGameOver' = isGameOver
            ELSE /\ isGameOver' = TRUE
                 /\ UNCHANGED <<turn, userResponded>>

\* the incorrect branch with the streak reset left out
IncorrectOutcomeKeepsStreak ==
    /\ score' = Max(0, score - Penalty)
    /\ currentStreak' = currentStreak
    /\ incorrectPresses' = incorrectPresses + 1
    /\ emitted' = Append(emitted, <<FALSE, 0>>)
    /\ lastResult' = "incorrect"
    /\ showReviewHistory' = TRUE

\* the incorrect branch shared by the timer and by handleMatch
IncorrectOutcome ==
    /\ score' = Penalised(score)
    /\ currentStreak' = 0
    /\ incorrectPresses' = incorrectPresses + 1
    /\ emitted' = Append(emitted, <<FALSE, 0>>)
    /\ lastResult' = "incorrect"
    /\ showReviewHistory' = TRUE

\* the correct branch with the combo bonus taken from the new streak
CorrectOutcomeBonusFromNewStreak ==
    LET newStreak  == currentStreak + 1
        comboBonus == newStreak * (5 * nLevel)
    IN  /\ score' = score + BasePoints + comboBonus
        /\ currentStreak' = newStreak
        /\ emitted' = Append(emitted, <<TRUE, newStreak>>)
        /\ lastResult' = "correct"
        /\ UNCHANGED <<incorrectPresses, showReviewHistory>>

\* the correct branch without the combo bonus
CorrectOutcomeNoCombo ==
    LET newStreak == currentStreak + 1
    IN  /\ score' = score + BasePoints
        /\ currentStreak' = newStreak
        /\ emitted' = Append(emitted, <<TRUE, newStreak>>)
        /\ lastResult' = "correct"
        /\ UNCHANGED <<incorrectPresses, showReviewHistory>>

\* the correct branch of handleMatch
CorrectOutcome ==
    LET newStreak  == currentStreak + 1
        comboBonus == (newStreak - 1) * (5 * nLevel)
    IN  /\ score' = score + BasePoints + comboBonus
        /\ currentStreak' = newStreak
        /\ emitted' = Append(emitted, <<TRUE, newStreak>>)
        /\ lastResult' = "correct"
        /\ UNCHANGED <<incorrectPresses, showReviewHistory>>

\* the no-op branch as src/hooks/useGameLogic.ts has it: the streak resets
NoOpOutcomeResetsStreak ==
    /\ lastResult' = "neutral"
    /\ currentStreak' = 0
    /\ UNCHANGED <<score, incorrectPresses, emitted, showReviewHistory>>

\* the correct no-op branch of the turn timer, before it advances
NoOpOutcome ==
    /\ lastResult' = "neutral"
    /\ UNCHANGED <<score, currentStreak, incorrectPresses, emitted,
                   showReviewHistory>>

AdvanceTimer(kind, delay) ==
    [kind |-> kind, rem |-> delay, capTurn |-> turn,
     capOver |-> isGameOver, capResponded |-> userResponded]

\* the record of the operation a step has run, at position pos
Op(op, branch, pos) ==
    [op |-> op, branch |-> branch, pos |-> pos, signal |-> "none"]

\* the record of a handleUserMatch(match) call
MatchOp(branch, pos, match) ==
    [op |-> "handleMatch", branch |-> branch, pos |-> pos,
     signal |-> IF match THEN "match" ELSE "no-match"]

CountMiss(p) ==
    IF p \in DOMAIN missCount
    THEN [missCount EXCEPT ![p] = @ + 1]
    ELSE missCount @@ (p :> 1)

-----------------------------------------------------------------------------
(* rewardService: a GameStats is the record of its score, settings.nLevel, *)
(* maxStreak, incorrectPresses and gameCompleted                           *)

CascadeBase == 10     \* the 10 of each conversion step

ZeroRewards == [stars |-> 0, gems |-> 0, trophies |-> 0, perfectScores |-> 0]

\* calculateStars with Math.round in the place of Math.floor
CalculateStarsRounded(st) ==
    IF st.score <= 0 THEN 0
    ELSE LET starConversionRate == 5 * (10 * Pow2(st.nLevel - 1))
         IN  (2 * st.score + starConversionRate) \div (2 * starConversionRate)

\* calculateStars
CalculateStars(st) ==
    IF st.score <= 0 THEN 0
    ELSE LET basePoints         == 10 * Pow2(st.nLevel - 1)
             starConversionRate == 5 * basePoints
         IN  IF starConversionRate <= 0 THEN 0
             ELSE st.score \div starConversionRate

\* wasPerfect of handleGameEnd without its score test
WasPerfectAnyScore(st) == st.incorrectPresses = 0 /\ st.gameCompleted

\* wasPerfect as handleGameEnd and the game-over effect compute it
WasPerfect(st) ==
    st.incorrectPresses = 0 /\ st.score > 0 /\ st.gameCompleted

\* one conversion step: what moves up from a tier holding total, what stays
Converted(total) ==
    IF total >= CascadeBase THEN total \div CascadeBase ELSE 0
Remainder(total) ==
    IF total >= CascadeBase THEN total % CascadeBase ELSE total

\* processRewards with the gems and the trophies left unconverted
ProcessRewardsStarsOnly(currentRewards, starsToAdd, wasPerfectScore) ==
    LET bonus      == IF wasPerfectScore THEN 1 ELSE 0
        totalStars == currentRewards.stars + starsToAdd
    IN  [earned   |-> [stars |-> starsToAdd,
                       gems |-> bonus + Converted(totalStars),
                       trophies |-> 0, perfectScores |-> 0],
         newTotal |-> [stars |-> Remainder(totalStars),
                       gems |-> currentRewards.gems + bonus
                                    + Converted(totalStars),
                       trophies |-> currentRewards.trophies,
                       perfectScores |-> currentRewards.perfectScores]]

\* processRewards with the bonus gem added after all conversions
ProcessRewardsBonusLast(currentRewards, starsToAdd, wasPerfectScore) ==
    LET bonus         == IF wasPerfectScore THEN 1 ELSE 0
        totalStars    == currentRewards.stars + starsToAdd
        totalGems     == currentRewards.gems + Converted(totalStars)
        totalTrophies == currentRewards.trophies + Converted(totalGems)
    IN  [earned   |-> [stars |-> starsToAdd,
                       gems |-> bonus + Converted(totalStars),
                       trophies |-> Converted(totalGems),
                       perfectScores |-> Converted(totalTrophies)],
         newTotal |-> [stars |-> Remainder(totalStars),
                       gems |-> Remainder(totalGems) + bonus,
                       trophies |-> Remainder(totalTrophies),
                       perfectScores |-> currentRewards.perfectScores
                                             + Converted(totalTrophies)]]

\* processRewards with earned.stars taken after the conversion
ProcessRewardsEarnedNet(currentRewards, starsToAdd, wasPerfectScore) ==
    LET bonus         == IF wasPerfectScore THEN 1 ELSE 0
        totalStars    == currentRewards.stars + starsToAdd
        totalGems     == currentRewards.gems + bonus + Converted(totalStars)
        totalTrophies == currentRewards.trophies + Converted(totalGems)
    IN  [earned   |-> [stars |-> Remainder(totalStars)
                                     - currentRewards.stars,
                       gems |-> bonus + Converted(totalStars),
                       trophies |-> Converted(totalGems),
                       perfectScores |-> Converted(totalTrophies)],
         newTotal |-> [stars |-> Remainder(totalStars),
                       gems |-> Remainder(totalGems),
                       trophies |-> Remainder(totalTrophies),
                       perfectScores |-> currentRewards.perfectScores
                                             + Converted(totalTrophies)]]

\* processRewards with the gems tier not reduced by what it converted
ProcessRewardsKeepsConvertedGems(currentRewards, starsToAdd, wasPerfectScore) ==
    LET bonus         == IF wasPerfectScore THEN 1 ELSE 0
        totalStars    == currentRewards.stars + starsToAdd
        totalGems     == currentRewards.gems + bonus + Converted(totalStars)
        totalTrophies == currentRewards.trophies + Converted(totalGems)
    IN  [earned   |-> [stars |-> starsToAdd,
                       gems |-> bonus + Converted(totalStars),
                       trophies |-> Converted(totalGems),
                       perfectScores |-> Converted(totalTrophies)],
         newTotal |-> [stars |-> Remainder(totalStars),
                       gems |-> totalGems,
                       trophies |-> Remainder(totalTrophies),
                       perfectScores |-> currentRewards.perfectScores
                                             + Converted(totalTrophies)]]

\* processRewards
ProcessRewards(currentRewards, starsToAdd, wasPerfectScore) ==
    LET \* step 1: the perfect score bonus
        bonus         == IF wasPerfectScore THEN 1 ELSE 0
        \* step 2: the direct star earnings
        totalStars    == currentRewards.stars + starsToAdd
        \* step 3: the conversions, in order
        totalGems     == currentRewards.gems + bonus + Converted(totalStars)
        totalTrophies == currentRewards.trophies + Converted(totalGems)
    IN  [earned   |-> [stars |-> starsToAdd,
                       gems |-> bonus + Converted(totalStars),
                       trophies |-> Converted(totalGems),
                       perfectScores |-> Converted(totalTrophies)],
         newTotal |-> [stars |-> Remainder(totalStars),
                       gems |-> Remainder(totalGems),
                       trophies |-> Remainder(totalTrophies),
                       perfectScores |-> currentRewards.perfectScores
                                             + Converted(totalTrophies)]]

\* processRewards as src/unnamed/part_008 has it: the stars are converted
\* first, the bonus gem is added next, the gems and the trophies cascade last
ProcessRewardsVariant(currentRewards, starsToAdd, wasPerfectScore) ==
    LET tempStars0       == currentRewards.stars + starsToAdd
        \* step 1: the star conversion
        gemsFromStars    == Converted(tempStars0)
        tempGems1        == currentRewards.gems + gemsFromStars
        tempStars        == Remainder(tempStars0)
        \* step 2: the bonus gem
        bonus            == IF wasPerfectScore THEN 1 ELSE 0
        tempGems2        == tempGems1 + bonus
        \* step 3: the cascade
        trophiesFromGems == Converted(tempGems2)
        tempTrophies1    == currentRewards.trophies + trophiesFromGems
        tempGems         == Remainder(tempGems2)
        perfectFromTrophies == Converted(tempTrophies1)
        tempPerfectScores   == currentRewards.perfectScores
                                   + perfectFromTrophies
        tempTrophies     == Remainder(tempTrophies1)
    IN  [earned   |-> [stars |-> starsToAdd,
                       gems |-> gemsFromStars + bonus,
                       trophies |-> trophiesFromGems,
                       perfectScores |-> perfectFromTrophies],
         newTotal |-> [stars |-> tempStars,
                       gems |-> tempGems,
                       trophies |-> tempTrophies,
                       perfectScores |-> tempPerfectScores]]

-----------------------------------------------------------------------------
(* achievements and achievementService.  An unlocked map gives every id    *)
(* its timestamp, a clock value >= 1, or Absent when the id is not a key.  *)

Absent == 0

\* ALL_ACHIEVEMENTS; a goal that is a function is named by goalKind and
\* evaluated by GoalFunction
ALL_ACHIEVEMENTS == <<
    [id |-> "first_game", type |-> "generic",
     goalKind |-> "function", goal |-> 0],
    [id |-> "score_500", type |-> "score",
     goalKind |-> "number", goal |-> 500],
    [id |-> "streak_5", type |-> "streak",
     goalKind |-> "number", goal |-> 5],
    [id |-> "streak_10", type |-> "streak",
     goalKind |-> "number", goal |-> 10],
    [id |-> "n2_master", type |-> "levelComplete",
     goalKind |-> "function", goal |-> 0],
    [id |-> "n3_pro", type |-> "levelComplete",
     goalKind |-> "function", goal |-> 0],
    [id |-> "perfect_precision", type |-> "precision",
     goalKind |-> "number", goal |-> 0],
    [id |-> "ai_explorer", type |-> "action",
     goalKind |-> "number", goal |-> 1] >>

AchievementIds == {ALL_ACHIEVEMENTS[k].id : k \in DOMAIN ALL_ACHIEVEMENTS}

NoneUnlocked == [id \in AchievementIds |-> Absent]

\* achievement.goal(stats) of the achievements whose goal is a function
GoalFunction(id, st) ==
    CASE id = "first_game" -> st.gameCompleted
      [] id = "n2_master"  ->
             st.nLevel = 2 /\ st.score >= 400 /\ st.gameCompleted
      [] id = "n3_pro"     ->
             st.nLevel = 3 /\ st.score >= 800 /\ st.gameCompleted
      [] OTHER             -> FALSE

\* the switch with the already-unlocked test left out
IsUnlockedIgnoringMap(achievement, st, unlocked) ==
    CASE achievement.type = "generic" ->
             achievement.goalKind = "function"
             /\ GoalFunction(achievement.id, st)
      [] achievement.type = "score" ->
             achievement.goalKind = "number"
             /\ st.score >= achievement.goal
      [] achievement.type = "streak" ->
             achievement.goalKind = "number"
             /\ st.maxStreak >= achievement.goal
      [] achievement.type = "levelComplete" ->
             achievement.goalKind = "function"
             /\ GoalFunction(achievement.id, st)
      [] achievement.type = "precision" ->
             achievement.goalKind = "number"
             /\ st.gameCompleted
             /\ st.incorrectPresses = achievement.goal
      [] OTHER -> FALSE

\* the switch with the streak rule testing for more than the goal
IsUnlockedStrictStreak(achievement, st, unlocked) ==
    /\ unlocked[achievement.id] = Absent
    /\ IF achievement.type = "streak"
       THEN st.maxStreak > achievement.goal
       ELSE IsUnlockedIgnoringMap(achievement, st, unlocked)

\* the switch with type action evaluated like a numeric score goal
IsUnlockedActionByGoal(achievement, st, unlocked) ==
    /\ unlocked[achievement.id] = Absent
    /\ IF achievement.type = "action"
       THEN st.score >= achievement.goal
       ELSE IsUnlockedIgnoringMap(achievement, st, unlocked)

\* the body of the forEach callback: TRUE when achievement.id is pushed
IsUnlocked(achievement, st, unlocked) ==
    IF unlocked[achievement.id] # Absent THEN FALSE
    ELSE CASE achievement.type = "generic" ->
                  achievement.goalKind = "function"
                  /\ GoalFunction(achievement.id, st)
           [] achievement.type = "score" ->
                  achievement.goalKind = "number"
                  /\ st.score >= achievement.goal
           [] achievement.type = "streak" ->
                  achievement.goalKind = "number"
                  /\ st.maxStreak >= achievement.goal
           [] achievement.type = "levelComplete" ->
                  achievement.goalKind = "function"
                  /\ GoalFunction(achievement.id, st)
           [] achievement.type = "precision" ->
                  achievement.goalKind = "number"
                  /\ st.gameCompleted
                  /\ st.incorrectPresses = achievement.goal
           [] achievement.type = "action" -> FALSE

\* ALL_ACHIEVEMENTS.forEach from index k on: the ids pushed, in order
RECURSIVE NewlyUnlockedFrom(_, _, _)
NewlyUnlockedFrom(k, st, unlocked) ==
    IF k > Len(ALL_ACHIEVEMENTS) THEN <<>>
    ELSE (IF IsUnlocked(ALL_ACHIEVEMENTS[k], st, unlocked)
          THEN <<ALL_ACHIEVEMENTS[k].id>> ELSE <<>>)
         \o NewlyUnlockedFrom(k + 1, st, unlocked)

\* checkAchievements
CheckAchievements(st, unlocked) == NewlyUnlockedFrom(1, st, unlocked)

-----------------------------------------------------------------------------
(* Initial state: the first render of GameScreen, countdown running *)

SessionPools == {<<>>, <<"a">>, <<"a", "b">>}

\* the stats record before any game has ended
NoStats == [score |-> 0, nLevel |-> 1, maxStreak |-> 0,
            incorrectPresses |-> 0, gameCompleted |-> FALSE]

\* a fresh App: the default state of getInitialState, saved by the effect
AppMounted ==
    /\ playerRewards = ZeroRewards
    /\ unlockedAchievements = NoneUnlocked
    /\ newlyUnlocked = <<>>
    /\ savedState = [playerRewards |-> ZeroRewards,
                     unlockedAchievements |-> NoneUnlocked]
    /\ lastGameHistory = <<>>
    /\ now = 1

\* no handleGameEnd call has been made
NoGameEnded ==
    /\ stats = NoStats
    /\ justUnlocked = <<>>
    /\ starsEarned = 0
    /\ wasPerfect = FALSE
    /\ reportCount = [id \in AchievementIds |-> 0]

\* no processRewards call has been made
NoSession ==
    /\ startRewards = ZeroRewards
    /\ sessions = <<>>
    /\ earned = ZeroRewards
    /\ newTotal = ZeroRewards

ServicesIdle == AppMounted /\ NoGameEnded /\ NoSession

GenIdle ==
    /\ pc = "idle"
    /\ sequence = <<>>
    /\ turnTypes = <<>>
    /\ shuffleIndex = 0
    /\ balancedTurnTypes = <<>>

\* useState initial value of scoreHistory
InitialLog == <<[turn |-> 0, score |-> 0, result |-> "neutral"]>>

\* the useState initial values, GameScreen's included
Mounted ==
    /\ turn = 0
    /\ score = 0
    /\ history = <<>>
    /\ isGameOver = FALSE
    /\ userResponded = FALSE
    /\ showReviewHistory = FALSE
    /\ lastResult = "neutral"
    /\ scoreHistory = InitialLog
    /\ currentStreak = 0
    /\ maxStreak = 0
    /\ incorrectPresses = 0
    /\ gameState = "ready"
    /\ timers = <<>>
    /\ emitted = <<>>
    /\ lastOp = Op("mount", "none", 0)
    /\ missCount = [p \in {} |-> 0]
    /\ timerElapsedOn = {}
    /\ matchAcceptedOn = {}

\* settings.speed is any number of milliseconds: the settings screen offers
\* 1000..5000, stored and imported settings are taken as they are
Init ==
    /\ nLevel \in 1 .. MaxN
    /\ gameLength \in (nLevel + 1) .. MaxLen
    /\ speed \in 1 .. MaxSpeed
    /\ stimuli \in SessionPools
    /\ gameSequence \in GameSequences(stimuli, nLevel, gameLength)
    /\ Mounted
    /\ GenIdle
    /\ ServicesIdle
    /\ screen = "GAME"

-----------------------------------------------------------------------------
(* The operations *)

\* GameScreen: the countdown reaches 0 and calls setGameState('playing')
StartPlaying ==
    /\ UNCHANGED <<inputVars, genVars, serviceVars>>
    /\ screen = "GAME"
    /\ gameState = "ready"
    /\ lastOp' = Op("start", "none", turn)
    /\ UNCHANGED <<turn, score, history, isGameOver, userResponded,
                   showReviewHistory, lastResult, currentStreak,
                   incorrectPresses, emitted, missCount, timerElapsedOn,
                   matchAcceptedOn>>
    /\ Render(timers, "playing")

\* GameScreen.handlePause (the button exists once the countdown is over)
HandlePause ==
    /\ UNCHANGED <<inputVars, genVars, serviceVars>>
    /\ screen = "GAME"
    /\ gameState # "ready"
    /\ lastOp' = Op("pause", "none", turn)
    /\ UNCHANGED <<turn, score, history, isGameOver, userResponded,
                   showReviewHistory, lastResult, currentStreak,
                   incorrectPresses, emitted, missCount, timerElapsedOn,
                   matchAcceptedOn>>
    /\ Render(timers, "paused")

\* GameScreen.handleResume (the button exists while paused)
HandleResume ==
    /\ UNCHANGED <<inputVars, genVars, serviceVars>>
    /\ screen = "GAME"
    /\ gameState = "paused"
    /\ lastOp' = Op("resume", "none", turn)
    /\ UNCHANGED <<turn, score, history, isGameOver, userResponded,
                   showReviewHistory, lastResult, currentStreak,
                   incorrectPresses, emitted, missCount, timerElapsedOn,
                   matchAcceptedOn>>
    /\ Render(timers, "playing")

\* GameScreen.handleUserMatch(match), which calls handleMatch(match)
HandleUserMatch(match) ==
    /\ UNCHANGED <<inputVars, genVars, serviceVars>>
    /\ screen = "GAME"
    /\ gameState # "ready"
    /\ IF HandleUserMatchIgnored \/ HandleMatchIgnored
       THEN /\ lastOp' = MatchOp("ignored", turn, match)
            /\ UNCHANGED <<hookVars, gameState, timers, emitted, missCount,
                           timerElapsedOn, matchAcceptedOn>>
       ELSE /\ userResponded' = TRUE
            /\ matchAcceptedOn' = matchAcceptedOn \cup {turn}
            /\ UNCHANGED <<turn, history, isGameOver, missCount,
                           timerElapsedOn>>
            /\ IF match = MatchActualMatch
               THEN /\ CorrectOutcome
                    /\ lastOp' = MatchOp("correct", turn, match)
                    /\ Render(Append(timers,
                                     AdvanceTimer("correct", CorrectDelay)),
                              gameState)
               ELSE /\ IncorrectOutcome
                    /\ lastOp' = MatchOp("incorrect", turn, match)
                    /\ Render(Append(timers, AdvanceTimer("review", speed)),
                              gameState)

\* the timers that are due, and the one the event loop runs next
Due == {k \in DOMAIN timers : timers[k].rem = 0}
NextDue == CHOOSE k \in Due : \A j \in Due : k <= j
Without(k) == [j \in 1 .. (Len(timers) - 1) |->
                   IF j < k THEN timers[j] ELSE timers[j + 1]]

\* the callback of the turn timer
TurnTimerFires(t, rest) ==
    IF t.capResponded
    THEN /\ lastOp' = Op("turnTimer", "responded", t.capTurn)
         /\ UNCHANGED <<turn, score, history, isGameOver, userResponded,
                        showReviewHistory, lastResult, currentStreak,
                        incorrectPresses, emitted, missCount, timerElapsedOn,
                        matchAcceptedOn>>
         /\ Render(rest, gameState)
    ELSE IF TimerActualMatch(t.capTurn)
    THEN /\ IncorrectOutcome
         /\ lastOp' = Op("turnTimer", "missed", t.capTurn)
         /\ missCount' = CountMiss(t.capTurn)
         /\ timerElapsedOn' = timerElapsedOn \cup {t.capTurn}
         /\ UNCHANGED <<turn, history, isGameOver, userResponded,
                        matchAcceptedOn>>
         /\ Render(Append(rest, [kind |-> "review", rem |-> MissReviewDelay,
                                 capTurn |-> t.capTurn, capOver |-> t.capOver,
                                 capResponded |-> t.capResponded]),
                   gameState)
    ELSE /\ NoOpOutcome
         /\ AdvanceTurn(t.capTurn, t.capOver)
         /\ lastOp' = Op("turnTimer", "noop", t.capTurn)
         /\ timerElapsedOn' = timerElapsedOn \cup {t.capTurn}
         /\ UNCHANGED <<missCount, matchAcceptedOn>>
         /\ Render(rest, gameState)

\* the callback setTimeout(advanceTurn, 500) of a correct response
CorrectAdvanceFires(t, rest) ==
    /\ AdvanceTurn(t.capTurn, t.capOver)
    /\ lastOp' = Op("advance", "correct", t.capTurn)
    /\ UNCHANGED <<score, currentStreak, incorrectPresses, emitted,
                   showReviewHistory, lastResult, missCount, timerElapsedOn,
                   matchAcceptedOn>>
    /\ Render(rest, gameState)

\* the callback that closes the review overlay and advances
ReviewAdvanceFires(t, rest) ==
    /\ showReviewHistory' = FALSE
    /\ AdvanceTurn(t.capTurn, t.capOver)
    /\ lastOp' = Op("advance", "review", t.capTurn)
    /\ UNCHANGED <<score, currentStreak, incorrectPresses, emitted,
                   lastResult, missCount, timerElapsedOn, matchAcceptedOn>>
    /\ Render(rest, gameState)

\* the event loop runs the earliest due callback
FireTimer ==
    /\ UNCHANGED <<inputVars, genVars, serviceVars>>
    /\ screen = "GAME"
    /\ Due # {}
    /\ LET t    == timers[NextDue]
           rest == Without(NextDue)
       IN  \/ t.kind = "turn" /\ TurnTimerFires(t, rest)
           \/ t.kind = "correct" /\ CorrectAdvanceFires(t, rest)
           \/ t.kind = "review" /\ ReviewAdvanceFires(t, rest)

\* 500 ms pass; a due callback runs before more time passes
Tick ==
    /\ UNCHANGED <<inputVars, genVars, serviceVars>>
    /\ timers # <<>>
    /\ Due = {}
    /\ timers' = [k \in DOMAIN timers |-> [timers[k] EXCEPT !.rem = @ - 1]]
    /\ lastOp' = Op("tick", "none", turn)
    /\ UNCHANGED <<hookVars, gameState, emitted, missCount, timerElapsedOn,
                   matchAcceptedOn>>

Next ==
    \/ StartPlaying
    \/ HandlePause
    \/ HandleResume
    \/ \E match \in BOOLEAN : HandleUserMatch(match)
    \/ FireTimer
    \/ Tick

Spec == Init /\ [][Next]_vars

\* the session with its timers running: time passes, the event loop runs a
\* due callback (setTimeout of the hook), and the countdown of GameScreen
\* (setInterval) reaches zero; the player's own steps have no fairness
SpecLive ==
    /\ Init
    /\ [][Next]_vars
    /\ WF_vars(Tick)
    /\ WF_vars(FireTimer)
    /\ WF_vars(StartPlaying)

-----------------------------------------------------------------------------
(* The hook of src/hooks/useGameLogic.ts under the same GameScreen.  Its   *)
(* generator draws every position at random, its guards have no           *)
(* gameSequence.length test, and its no-op branch resets the streak; the   *)
(* correct and incorrect branches and advanceTurn are the same code.       *)

\* the useMemo of gameSequence from position Len(seq) on: a copy of the
\* stimulus n back when Math.random() < 0.3 allows it, else any of the pool
RECURSIVE VariantSequencesFrom(_, _, _, _)
VariantSequencesFrom(pool, seq, n, len) ==
    IF Len(seq) >= len THEN {seq}
    ELSE UNION {VariantSequencesFrom(pool, Append(seq, s), n, len) :
                    s \in (IF Len(seq) >= n
                           THEN {seq[Len(seq) - n + 1]} ELSE {})
                          \cup Range(pool)}

\* every value the useMemo of gameSequence may return
VariantSequences(pool, n, len) ==
    IF Len(pool) = 0 THEN {<<>>}
    ELSE VariantSequencesFrom(pool, <<>>, n, len)

\* settings.speed below, at and above the 1000 ms of the review delay
VariantSpeeds == {1, MissReviewDelay, MaxSpeed}

VariantInit ==
    /\ nLevel \in 1 .. MaxN
    /\ gameLength \in (nLevel + 1) .. MaxLen
    /\ speed \in VariantSpeeds
    /\ stimuli \in SessionPools
    /\ gameSequence \in VariantSequences(stimuli, nLevel, gameLength)
    /\ Mounted
    /\ GenIdle
    /\ ServicesIdle
    /\ screen = "GAME"

\* the guard of handleMatch: TRUE when the call returns at once
VariantHandleMatchIgnored == userResponded \/ turn < nLevel \/ IsPaused

\* the turn timer effect: the cleanup clears the old turn timer and the
\* effect arms a new one unless paused, over or without stimuli
VariantTurnTimerEffect(pending, newTurn, newPaused, newOver, newResp) ==
    IF <<newTurn, newPaused, newOver, newResp>>
           = <<turn, IsPaused, isGameOver, userResponded>>
    THEN pending
    ELSE LET cleared == SelectSeq(pending, LAMBDA t : t.kind # "turn")
         IN  IF newPaused \/ newOver \/ Len(stimuli) = 0
             THEN cleared
             ELSE Append(cleared, TurnTimer(newTurn, newOver, newResp))

\* the renders that follow a handler: the hook's effects and GameScreen's
VariantRender(pending, gs) ==
    /\ gameState' = GameOverEffect(isGameOver', gs)
    /\ timers' = VariantTurnTimerEffect(pending, turn', PausedIn(gameState'),
                                        isGameOver', userResponded')
    /\ maxStreak' = MaxStreakEffect(currentStreak')
    /\ scoreHistory' = ScoreHistoryEffect(turn', score', lastResult')

\* a no-op branch that leaves the streak standing
VariantNoOpOutcomeKeepsStreak ==
    /\ lastResult' = "neutral"
    /\ currentStreak' = currentStreak
    /\ UNCHANGED <<score, incorrectPresses, emitted, showReviewHistory>>

\* the no-op branch of the turn timer, before it advances:
\* setLastResult('neutral'); setCurrentStreak(0)
VariantNoOpOutcome ==
    /\ lastResult' = "neutral"
    /\ currentStreak' = 0
    /\ UNCHANGED <<score, incorrectPresses, emitted, showReviewHistory>>

VariantFrame ==
    UNCHANGED <<turn, score, history, isGameOver, userResponded,
                showReviewHistory, lastResult, currentStreak,
                incorrectPresses, emitted, missCount, timerElapsedOn,
                matchAcceptedOn>>

VariantStartPlaying ==
    /\ UNCHANGED <<inputVars, genVars, serviceVars>>
    /\ screen = "GAME"
    /\ gameState = "ready"
    /\ lastOp' = Op("start", "none", turn)
    /\ VariantFrame
    /\ VariantRender(timers, "playing")

VariantHandlePause ==
    /\ UNCHANGED <<inputVars, genVars, serviceVars>>
    /\ screen = "GAME"
    /\ gameState # "ready"
    /\ lastOp' = Op("pause", "none", turn)
    /\ VariantFrame
    /\ VariantRender(timers, "paused")

VariantHandleResume ==
    /\ UNCHANGED <<inputVars, genVars, serviceVars>>
    /\ screen = "GAME"
    /\ gameState = "paused"
    /\ lastOp' = Op("resume", "none", turn)
    /\ VariantFrame
    /\ VariantRender(timers, "playing")

\* GameScreen.handleUserMatch(match), which calls handleMatch(match)
VariantHandleUserMatch(match) ==
    /\ UNCHANGED <<inputVars, genVars, serviceVars>>
    /\ screen = "GAME"
    /\ gameState # "ready"
    /\ IF HandleUserMatchIgnored \/ VariantHandleMatchIgnored
       THEN /\ lastOp' = MatchOp("ignored", turn, match)
            /\ UNCHANGED <<hookVars, gameState, timers, emitted, missCount,
                           timerElapsedOn, matchAcceptedOn>>
       ELSE /\ userResponded' = TRUE
            /\ matchAcceptedOn' = matchAcceptedOn \cup {turn}
            /\ UNCHANGED <<turn, history, isGameOver, missCount,
                           timerElapsedOn>>
            /\ IF match = MatchActualMatch
               THEN /\ CorrectOutcome
                    /\ lastOp' = MatchOp("correct", turn, match)
                    /\ VariantRender(Append(timers,
                                            AdvanceTimer("correct",
                                                         CorrectDelay)),
                                     gameState)
               ELSE /\ IncorrectOutcome
                    /\ lastOp' = MatchOp("incorrect", turn, match)
                    /\ VariantRender(Append(timers,
                                            AdvanceTimer("review", speed)),
                                     gameState)

\* the callback of the turn timer
VariantTurnTimerFires(t, rest) ==
    IF t.capResponded
    THEN /\ lastOp' = Op("turnTimer", "responded", t.capTurn)
         /\ VariantFrame
         /\ VariantRender(rest, gameState)
    ELSE IF TimerActualMatch(t.capTurn)
    THEN /\ IncorrectOutcome
         /\ lastOp' = Op("turnTimer", "missed", t.capTurn)
         /\ missCount' = CountMiss(t.capTurn)
         /\ timerElapsedOn' = timerElapsedOn \cup {t.capTurn}
         /\ UNCHANGED <<turn, history, isGameOver, userResponded,
                        matchAcceptedOn>>
         /\ VariantRender(Append(rest, [kind |-> "review",
                                        rem |-> MissReviewDelay,
                                        capTurn |-> t.capTurn,
                                        capOver |-> t.capOver,
                                        capResponded |-> t.capResponded]),
                          gameState)
    ELSE /\ VariantNoOpOutcome
         /\ AdvanceTurn(t.capTurn, t.capOver)
         /\ lastOp' = Op("turnTimer", "noop", t.capTurn)
         /\ timerElapsedOn' = timerElapsedOn \cup {t.capTurn}
         /\ UNCHANGED <<missCount, matchAcceptedOn>>
         /\ VariantRender(rest, gameState)

\* the callback setTimeout(advanceTurn, 500) of a correct response
VariantCorrectAdvanceFires(t, rest) ==
    /\ AdvanceTurn(t.capTurn, t.capOver)
    /\ lastOp' = Op("advance", "correct", t.capTurn)
    /\ UNCHANGED <<score, currentStreak, incorrectPresses, emitted,
                   showReviewHistory, lastResult, missCount, timerElapsedOn,
                   matchAcceptedOn>>
    /\ VariantRender(rest, gameState)

\* the callback that closes the review overlay and advances
VariantReviewAdvanceFires(t, rest) ==
    /\ showReviewHistory' = FALSE
    /\ AdvanceTurn(t.capTurn, t.capOver)
    /\ lastOp' = Op("advance", "review", t.capTurn)
    /\ UNCHANGED <<score, currentStreak, incorrectPresses, emitted,
                   lastResult, missCount, timerElapsedOn, matchAcceptedOn>>
    /\ VariantRender(rest, gameState)

\* the event loop runs the earliest due callback
VariantFireTimer ==
    /\ UNCHANGED <<inputVars, genVars, serviceVars>>
    /\ screen = "GAME"
    /\ Due # {}
    /\ LET t    == timers[NextDue]
           rest == Without(NextDue)
       IN  \/ t.kind = "turn" /\ VariantTurnTimerFires(t, rest)
           \/ t.kind = "correct" /\ VariantCorrectAdvanceFires(t, rest)
           \/ t.kind = "review" /\ VariantReviewAdvanceFires(t, rest)

VariantNext ==
    \/ VariantStartPlaying
    \/ VariantHandlePause
    \/ VariantHandleResume
    \/ \E match \in BOOLEAN : VariantHandleUserMatch(match)
    \/ VariantFireTimer
    \/ Tick

SpecVariant == VariantInit /\ [][VariantNext]_vars

-----------------------------------------------------------------------------
(* The generator run step by step: one step per random choice *)

RECURSIVE Pools(_)
Pools(len) ==
    IF len = 0 THEN {<<>>}
    ELSE Pools(len - 1)
         \cup {Append(q, s) : q \in {r \in Pools(len - 1) : Len(r) = len - 1},
                              s \in Ids}

GenInit ==
    /\ nLevel \in 1 .. GenMaxN
    /\ gameLength \in 0 .. GenMaxLen
    /\ speed = 1
    /\ stimuli \in Pools(GenMaxPool)
    /\ gameSequence = <<>>
    /\ Mounted
    /\ ServicesIdle
    /\ screen = "GAME"
    /\ pc = "start"
    /\ sequence = <<>>
    /\ turnTypes = <<>>
    /\ shuffleIndex = 0
    /\ balancedTurnTypes = <<>>

GenFrame ==
    UNCHANGED <<nLevel, gameLength, speed, stimuli, sessionVars, serviceVars>>

\* if (stimuli.length < 2) return []
GenGuard ==
    /\ pc = "start"
    /\ pc' = IF Len(stimuli) < 2 THEN "done" ELSE "initial"
    /\ UNCHANGED <<gameSequence, sequence, turnTypes, shuffleIndex,
                   balancedTurnTypes>>
    /\ GenFrame

\* one iteration of the first loop
GenInitialBlock ==
    /\ pc = "initial"
    /\ Len(sequence) < nLevel
    /\ \E s \in GetRandomStimulus(stimuli, sequence) :
           sequence' = Append(sequence, s)
    /\ UNCHANGED <<pc, gameSequence, turnTypes, shuffleIndex,
                   balancedTurnTypes>>
    /\ GenFrame

\* after the first loop: return, or build turnTypes
GenTurnTypes ==
    /\ pc = "initial"
    /\ Len(sequence) >= nLevel
    /\ IF gameLength - nLevel <= 0
       THEN /\ pc' = "done"
            /\ gameSequence' = sequence
            /\ UNCHANGED <<turnTypes, shuffleIndex>>
       ELSE /\ pc' = "shuffle"
            /\ turnTypes' = InitialTurnTypes(gameLength - nLevel)
            /\ shuffleIndex' = gameLength - nLevel - 1
            /\ UNCHANGED gameSequence
    /\ UNCHANGED <<sequence, balancedTurnTypes>>
    /\ GenFrame

\* one iteration of the Fisher-Yates loop
GenShuffle ==
    /\ pc = "shuffle"
    /\ shuffleIndex > 0
    /\ \E j \in 0 .. shuffleIndex :
           turnTypes' = SwapAt(turnTypes, shuffleIndex, j)
    /\ shuffleIndex' = shuffleIndex - 1
    /\ UNCHANGED <<pc, gameSequence, sequence, balancedTurnTypes>>
    /\ GenFrame

\* balancedTurnTypes = balanceTurnTypes(turnTypes, 3)
GenBalance ==
    /\ pc = "shuffle"
    /\ shuffleIndex <= 0
    /\ balancedTurnTypes' = BalanceTurnTypes(turnTypes, BalanceMaxStreak)
    /\ pc' = "rest"
    /\ UNCHANGED <<gameSequence, sequence, turnTypes, shuffleIndex>>
    /\ GenFrame

\* one iteration of the third loop
GenRest ==
    /\ pc = "rest"
    /\ Len(sequence) - nLevel < gameLength - nLevel
    /\ \E s \in NextStimuli(stimuli, sequence, Len(sequence), nLevel,
                            balancedTurnTypes[Len(sequence) - nLevel + 1]) :
           sequence' = Append(sequence, s)
    /\ UNCHANGED <<pc, gameSequence, turnTypes, shuffleIndex,
                   balancedTurnTypes>>
    /\ GenFrame

\* return sequence
GenReturn ==
    /\ pc = "rest"
    /\ Len(sequence) - nLevel >= gameLength - nLevel
    /\ pc' = "done"
    /\ gameSequence' = sequence
    /\ UNCHANGED <<sequence, turnTypes, shuffleIndex, balancedTurnTypes>>
    /\ GenFrame

GenNext ==
    \/ GenGuard
    \/ GenInitialBlock
    \/ GenTurnTypes
    \/ GenShuffle
    \/ GenBalance
    \/ GenRest
    \/ GenReturn

SpecGen == GenInit /\ [][GenNext]_vars

-----------------------------------------------------------------------------
(* balanceTurnTypes called on any array of booleans with any maxStreak *)

\* every array of booleans of length 0 .. len
BoolArrays(len) == UNION {[1 .. k -> BOOLEAN] : k \in 0 .. len}

BalanceInit ==
    /\ nLevel = 1
    /\ gameLength = 0
    /\ speed = 1
    /\ stimuli = <<>>
    /\ gameSequence = <<>>
    /\ Mounted
    /\ ServicesIdle
    /\ screen = "START"
    /\ pc = "call"
    /\ sequence = <<>>
    /\ shuffleIndex = 0
    /\ turnTypes \in BoolArrays(BalMaxLen)
    /\ balancedTurnTypes = <<>>

\* a call that works on the caller's array: const balanced = types
BalanceTurnTypesInPlace(types, streakLimit) ==
    [types    |-> BalanceLoop(types, 0, streakLimit),
     balanced |-> BalanceLoop(types, 0, streakLimit)]

\* the call balanceTurnTypes(types, maxStreak): the caller's array after the
\* call, which worked on the copy [...types], and the array returned
BalanceTurnTypesCall(types, streakLimit) ==
    [types    |-> types,
     balanced |-> BalanceLoop(types, 0, streakLimit)]

\* balancedTurnTypes = balanceTurnTypes(turnTypes, streakLimit)
ApplyBalanceTurnTypes(streakLimit) ==
    /\ pc = "call"
    /\ LET r == BalanceTurnTypesCall(turnTypes, streakLimit)
       IN  /\ turnTypes' = r.types
           /\ balancedTurnTypes' = r.balanced
    /\ pc' = "returned"
    /\ lastOp' = Op("balanceTurnTypes", "none", streakLimit)
    /\ UNCHANGED <<inputVars, hookVars, gameState, timers, emitted,
                   missCount, timerElapsedOn, matchAcceptedOn, sequence,
                   shuffleIndex, serviceVars>>

BalanceNext ==
    \E streakLimit \in 1 .. BalMaxStreak : ApplyBalanceTurnTypes(streakLimit)

SpecBalance == BalanceInit /\ [][BalanceNext]_vars

-----------------------------------------------------------------------------
(* processRewards applied session after session to stored totals *)

\* no session and no generator run: the inputs of the hook at rest
HookIdle ==
    /\ nLevel = 1
    /\ gameLength = 0
    /\ speed = 1
    /\ stimuli = <<>>
    /\ gameSequence = <<>>
    /\ Mounted
    /\ GenIdle
    /\ screen = "START"

\* the totals loadState may return: the stars tier in full, the upper
\* tiers at their edges
TierEdges == {0, MaxTier - 1, MaxTier}
StoredRewards ==
    [stars : 0 .. MaxTier, gems : TierEdges, trophies : TierEdges,
     perfectScores : TierEdges]

RewardsInit ==
    /\ HookIdle
    /\ AppMounted
    /\ NoGameEnded
    /\ startRewards \in StoredRewards
    /\ sessions = <<>>
    /\ earned = ZeroRewards
    /\ newTotal = startRewards

\* { earned, newTotal } = processRewards(newTotal, starsToAdd, wasPerfectScore)
ApplyProcessRewards(starsToAdd, wasPerfectScore) ==
    /\ Len(sessions) < MaxSessions
    /\ LET r == ProcessRewards(newTotal, starsToAdd, wasPerfectScore)
       IN  /\ earned' = r.earned
           /\ newTotal' = r.newTotal
    /\ sessions' = Append(sessions, [starsToAdd |-> starsToAdd,
                                     wasPerfectScore |-> wasPerfectScore])
    /\ lastOp' = Op("processRewards", "none", 0)
    /\ UNCHANGED <<inputVars, hookVars, gameState, timers, emitted,
                   missCount, timerElapsedOn, matchAcceptedOn, genVars,
                   appVars, gameEndVars, startRewards>>

RewardsNext ==
    \E starsToAdd \in 0 .. MaxStarsToAdd, wasPerfectScore \in BOOLEAN :
        ApplyProcessRewards(starsToAdd, wasPerfectScore)

SpecRewards == RewardsInit /\ [][RewardsNext]_vars

-----------------------------------------------------------------------------
(* App: finished games, AI fetches and progress resets on a fresh profile *)

\* the stats a finished game may hand to handleGameEnd
AppScores  == {0, 49, 50, 249, 500, 50000}
AppStreaks == {0, 5}
AppStats ==
    [score : AppScores, nLevel : 1 .. MaxLevel, maxStreak : AppStreaks,
     incorrectPresses : 0 .. MaxIncorrect, gameCompleted : BOOLEAN]

AppInit == HookIdle /\ ServicesIdle

\* how often id occurs in the array ids
Occurrences(ids, id) == Cardinality({k \in DOMAIN ids : ids[k] = id})

\* the effect that calls saveState after a render
SaveState ==
    savedState' = [playerRewards |-> playerRewards',
                   unlockedAchievements |-> unlockedAchievements']

AppFrameExceptTimers ==
    UNCHANGED <<inputVars, hookVars, gameState, emitted, missCount,
                timerElapsedOn, matchAcceptedOn, genVars, rewardVars>>

AppFrame == AppFrameExceptTimers /\ UNCHANGED timers

\* GameScreen leaves the tree: the cleanup of the turn timer effect runs
\* clearTimeout(turnTimer); the timeouts of handleMatch and of the review have
\* no cleanup
Unmount(pending) == SelectSeq(pending, LAMBDA t : t.kind # "turn")

\* handleStartGame
HandleStartGame ==
    /\ screen = "START"
    /\ lastGameHistory' = <<>>
    /\ screen' = "GAME"
    /\ lastOp' = Op("handleStartGame", "none", 0)
    /\ UNCHANGED <<playerRewards, unlockedAchievements, newlyUnlocked,
                   savedState, now, gameEndVars>>
    /\ AppFrame

\* handleGameEnd(st, log), called by GameScreen.handleContinue; its
\* setScreen(Screen.START) takes GameScreen out of the tree
HandleGameEnd(st, log) ==
    /\ screen = "GAME"
    /\ now <= MaxNow
    /\ lastGameHistory' = log
    /\ screen' = "START"
    /\ timers' = Unmount(timers)
    /\ stats' = st
    /\ justUnlocked' = CheckAchievements(st, unlockedAchievements)
    /\ IF Len(justUnlocked') > 0
       THEN /\ unlockedAchievements' =
                   [id \in AchievementIds |->
                       IF id \in Range(justUnlocked') THEN now
                       ELSE unlockedAchievements[id]]
            /\ newlyUnlocked' = justUnlocked'
       ELSE UNCHANGED <<unlockedAchievements, newlyUnlocked>>
    /\ starsEarned' = CalculateStars(st)
    /\ wasPerfect' = WasPerfect(st)
    /\ IF starsEarned' > 0 \/ wasPerfect'
       THEN playerRewards' =
                ProcessRewards(playerRewards, starsEarned', wasPerfect').newTotal
       ELSE UNCHANGED playerRewards
    /\ SaveState
    /\ reportCount' = [id \in AchievementIds |->
                           reportCount[id] + Occurrences(justUnlocked', id)]
    /\ now' = now + 1
    /\ lastOp' = Op("handleGameEnd", "none", 0)
    /\ AppFrameExceptTimers

\* handleAIFetch without its test of the map entry
HandleAIFetchAlwaysStamps ==
    /\ screen = "START"
    /\ now <= MaxNow
    /\ unlockedAchievements' =
           [unlockedAchievements EXCEPT !["ai_explorer"] = now]
    /\ newlyUnlocked' = <<"ai_explorer">>
    /\ reportCount' = [reportCount EXCEPT !["ai_explorer"] = @ + 1]
    /\ UNCHANGED <<playerRewards, stats, justUnlocked, starsEarned,
                   wasPerfect>>
    /\ SaveState
    /\ now' = now + 1
    /\ UNCHANGED <<screen, lastGameHistory>>
    /\ lastOp' = Op("handleAIFetch", "none", 0)
    /\ AppFrame

\* handleAIFetch
HandleAIFetch ==
    /\ screen = "START"
    /\ now <= MaxNow
    /\ IF unlockedAchievements["ai_explorer"] = Absent
       THEN /\ unlockedAchievements' =
                   [unlockedAchievements EXCEPT !["ai_explorer"] = now]
            /\ newlyUnlocked' = <<"ai_explorer">>
            /\ reportCount' = [reportCount EXCEPT !["ai_explorer"] = @ + 1]
       ELSE UNCHANGED <<unlockedAchievements, newlyUnlocked, reportCount>>
    /\ UNCHANGED <<playerRewards, stats, justUnlocked, starsEarned,
                   wasPerfect>>
    /\ SaveState
    /\ now' = now + 1
    /\ UNCHANGED <<screen, lastGameHistory>>
    /\ lastOp' = Op("handleAIFetch", "none", 0)
    /\ AppFrame

\* handleClearAllProgress
HandleClearAllProgress ==
    /\ screen = "START"
    /\ now <= MaxNow
    /\ playerRewards' = ZeroRewards
    /\ unlockedAchievements' = NoneUnlocked
    /\ reportCount' = [id \in AchievementIds |-> 0]
    /\ UNCHANGED <<newlyUnlocked, stats, justUnlocked, starsEarned,
                   wasPerfect>>
    /\ SaveState
    /\ now' = now + 1
    /\ UNCHANGED <<screen, lastGameHistory>>
    /\ lastOp' = Op("handleClearAllProgress", "none", 0)
    /\ AppFrame

AppNext ==
    \/ HandleStartGame
    \/ \E st \in AppStats : HandleGameEnd(st, InitialLog)
    \/ HandleAIFetch
    \/ HandleClearAllProgress

SpecApp == AppInit /\ [][AppNext]_vars

-----------------------------------------------------------------------------
(* One GameScreen from its first render to what follows its unmount *)

\* gameStats as the hook returns it
GameStats ==
    [score |-> score, nLevel |-> nLevel, maxStreak |-> maxStreak,
     incorrectPresses |-> incorrectPresses, gameCompleted |-> isGameOver]

\* GameScreen.handleContinue (GameEndSummary is rendered in state 'over'):
\* onEndGame(gameStats, scoreHistory)
HandleContinue ==
    /\ gameState = "over"
    /\ HandleGameEnd(GameStats, scoreHistory)

\* GameScreen.handleExit (the button is on the pause overlay): onExit() is
\* handleNavigate(Screen.START)
HandleExit ==
    /\ screen = "GAME"
    /\ gameState = "paused"
    /\ screen' = "START"
    /\ timers' = Unmount(timers)
    /\ lastOp' = Op("handleExit", "none", turn)
    /\ UNCHANGED <<playerRewards, unlockedAchievements, newlyUnlocked,
                   savedState, lastGameHistory, now, gameEndVars>>
    /\ AppFrameExceptTimers

\* a timeout of handleMatch or of the review runs after GameScreen left the
\* tree: its callback calls the setters of the unmounted component, and React
\* drops those updates
OrphanTimerFires ==
    /\ screen = "START"
    /\ Due # {}
    /\ timers' = Without(NextDue)
    /\ lastOp' = Op("orphanAdvance", timers[NextDue].kind,
                    timers[NextDue].capTurn)
    /\ UNCHANGED <<appVars, gameEndVars>>
    /\ AppFrameExceptTimers

ScreenNext ==
    \/ Next
    \/ HandleContinue
    \/ HandleExit
    \/ OrphanTimerFires

SpecScreen == Init /\ [][ScreenNext]_vars

-----------------------------------------------------------------------------
(* checkAchievements applied to any stats on any stored unlocked map *)

AchScores == {0, 399, 400, 499, 500, 799, 800}
AchStats ==
    [score : AchScores, nLevel : 1 .. AchMaxLevel,
     maxStreak : 0 .. AchMaxStreak, incorrectPresses : 0 .. MaxIncorrect,
     gameCompleted : BOOLEAN]

\* the unlocked maps loadState may return, their entries stamped at time 1
StoredUnlocked == [AchievementIds -> {Absent, 1}]

AchInit ==
    /\ HookIdle
    /\ NoGameEnded
    /\ NoSession
    /\ playerRewards = ZeroRewards
    /\ unlockedAchievements \in StoredUnlocked
    /\ newlyUnlocked = <<>>
    /\ savedState = [playerRewards |-> ZeroRewards,
                     unlockedAchievements |-> unlockedAchievements]
    /\ lastGameHistory = <<>>
    /\ now = 2

\* justUnlocked = checkAchievements(st, unlockedAchievements)
CallCheckAchievements(st) ==
    /\ lastOp.op = "mount"
    /\ stats' = st
    /\ justUnlocked' = CheckAchievements(st, unlockedAchievements)
    /\ lastOp' = Op("checkAchievements", "none", 0)
    /\ UNCHANGED <<starsEarned, wasPerfect, reportCount, appVars>>
    /\ AppFrame

AchNext == \E st \in AchStats : CallCheckAchievements(st)

SpecAchievements == AchInit /\ [][AchNext]_vars

-----------------------------------------------------------------------------
(* Properties *)

\* the delayed advances among the pending callbacks
Advances(pending) == SelectSeq(pending, LAMBDA t : t.kind # "turn")

\* handleMatch is awaitable in the current state
Awaitable ==
    /\ ~userResponded
    /\ turn >= nLevel
    /\ gameState = "playing"
    /\ Len(gameSequence) # 0

\* the ground truth of the current position
GroundTruth == At(gameSequence, turn) = At(gameSequence, turn - nLevel)

\* the step is an accepted handleMatch call whose signal is right / wrong
AcceptedCorrect ==
    /\ lastOp'.op = "handleMatch"
    /\ Awaitable
    /\ (lastOp'.signal = "match") = GroundTruth

AcceptedIncorrect ==
    /\ lastOp'.op = "handleMatch"
    /\ Awaitable
    /\ (lastOp'.signal = "match") # GroundTruth

\* the step is the turn timer's callback running with no response given
TimerElapsesUnanswered == lastOp'.op = "turnTimer" /\ ~userResponded

\* advanceTurn has run for the current position
Advanced ==
    /\ history' = Append(history, At(gameSequence, turn))
    /\ IF turn < gameLength - 1
       THEN turn' = turn + 1 /\ ~userResponded' /\ ~isGameOver'
       ELSE isGameOver' /\ turn' = turn

\* C1: on one position at most one of the timer path and the response path
\* takes effect: once the turn timer has elapsed on the current position a
\* handleMatch call changes none of score, currentStreak, incorrectPresses and
\* schedules no advance, and once handleMatch was accepted on a position the
\* turn timer's elapse on it changes nothing.
C1_OnePathPerPosition ==
    [][ /\ (lastOp'.op = "handleMatch" /\ turn \in timerElapsedOn)
            => /\ UNCHANGED <<score, currentStreak, incorrectPresses>>
               /\ Advances(timers') = Advances(timers)
        /\ (lastOp'.op = "turnTimer" /\ lastOp'.pos \in matchAcceptedOn)
            => UNCHANGED <<hookVars, emitted, gameState>>
      ]_vars

\* C2: while the game is paused the turn index does not change, the review
\* history gains no entry and the game-over flag is not set.
C2_NoProgressWhilePaused ==
    [][ gameState = "paused" => UNCHANGED <<turn, history, isGameOver>> ]_vars

\* C3: on every position the turn timer's missed-match penalty is applied at
\* most once, whatever pause and resume happen on that position.
C3_MissPenaltyAtMostOnce == \A p \in DOMAIN missCount : missCount[p] <= 1

\* C4: isGameOver never goes back to false, and a timer callback that runs when
\* the session is already over changes none of turn, history, score,
\* currentStreak, incorrectPresses.
C4_GameOverIdempotent ==
    [][ /\ isGameOver => isGameOver'
        /\ (isGameOver /\ lastOp'.op \in {"advance", "turnTimer"})
            => UNCHANGED <<turn, history, score, currentStreak,
                           incorrectPresses>>
      ]_vars

\* C5: a handleMatch call made when the player already responded, when the
\* position is below n, when the session is paused or when the sequence is
\* empty changes none of score, currentStreak, incorrectPresses, turn, the
\* responded flag, the review flag, emits no onResponse and schedules nothing.
C5_IgnoredCallIsNoOp ==
    [][ (lastOp'.op = "handleMatch"
         /\ (userResponded \/ turn < nLevel \/ gameState # "playing"
             \/ Len(gameSequence) = 0))
        => UNCHANGED <<score, currentStreak, incorrectPresses, turn,
                       userResponded, showReviewHistory, emitted, timers>>
      ]_vars

\* a second handleMatch call on a position was made and ignored
C5_Witness ==
    /\ lastOp.op = "handleMatch" /\ lastOp.branch = "ignored"
    /\ gameState = "playing" /\ turn >= nLevel /\ userResponded
    /\ turn \in matchAcceptedOn

\* C6: score >= 0 in every reachable state.
C6_ScoreNonNegative == score >= 0

\* a penalty has been applied that the clamp cut short
C6_Witness ==
    /\ lastOp.branch \in {"incorrect", "missed"}
    /\ score = 0
    /\ incorrectPresses >= 1

\* C7: an accepted handleMatch whose signal equals the ground truth, with s the
\* streak before it, adds exactly 10*2^(n-1) + s*5*n to score, makes the streak
\* s+1, leaves incorrectPresses and emits onResponse(true, s+1) once; for n=2
\* the first correct response adds 20 and a second consecutive one adds 30.
C7_CorrectResponseScoring ==
    [][ AcceptedCorrect
        => /\ score' = score + 10 * Pow2(nLevel - 1)
                             + currentStreak * 5 * nLevel
           /\ currentStreak' = currentStreak + 1
           /\ incorrectPresses' = incorrectPresses
           /\ emitted' = Append(emitted, <<TRUE, currentStreak + 1>>)
           /\ (nLevel = 2 /\ currentStreak = 0) => score' = score + 20
           /\ (nLevel = 2 /\ currentStreak = 1) => score' = score + 30
      ]_vars

\* at n=2 a second consecutive correct response has been scored
C7_Witness ==
    /\ nLevel = 2
    /\ lastOp.op = "handleMatch" /\ lastOp.branch = "correct"
    /\ currentStreak = 2
    /\ score = 50

\* C8: on every incorrect outcome (an accepted handleMatch whose signal differs
\* from the ground truth, or the turn timer elapsing unanswered on a true
\* match) score becomes max(0, score - ceil(basePoints/2)), the streak becomes
\* 0, incorrectPresses grows by 1 and onResponse(false, 0) is emitted once.
C8_IncorrectOutcomeScoring ==
    [][ (AcceptedIncorrect
         \/ (TimerElapsesUnanswered /\ turn >= nLevel /\ GroundTruth))
        => /\ score' = Max(0, score - (10 * Pow2(nLevel - 1) + 1) \div 2)
           /\ currentStreak' = 0
           /\ incorrectPresses' = incorrectPresses + 1
           /\ emitted' = Append(emitted, <<FALSE, 0>>)
      ]_vars

\* a missed match has cost a positive score its penalty and broken a streak
C8_Witness ==
    /\ lastOp.op = "turnTimer" /\ lastOp.branch = "missed"
    /\ score > 0
    /\ maxStreak >= 1
    /\ currentStreak = 0

\* C9: a correct no-op (the turn timer elapses unanswered on a position i >= n
\* that is no true match) leaves score, currentStreak and incorrectPresses,
\* sets the last result to neutral and advances.
C9_NoOpKeepsStreak ==
    [][ (TimerElapsesUnanswered /\ turn >= nLevel /\ ~GroundTruth)
        => /\ UNCHANGED <<score, currentStreak, incorrectPresses>>
           /\ lastResult' = "neutral"
           /\ Advanced
      ]_vars

\* a no-op on a position >= n has run while a streak was standing
C9_Witness ==
    /\ lastOp.op = "turnTimer" /\ lastOp.branch = "noop"
    /\ lastOp.pos >= nLevel
    /\ currentStreak >= 1

DistinctIds(pool) ==
    \A i, j \in DOMAIN pool : i # j => pool[i] # pool[j]

\* C10: for n >= 1, gameLength > n and a pool of at least 2 stimuli with
\* distinct ids, the returned sequence has exactly gameLength elements, and
\* every position i >= n equals position i-n when its pre-assigned type is
\* match and differs from it when the type is non-match.
C10_SequenceFollowsTypes ==
    (pc = "done" /\ nLevel >= 1 /\ gameLength > nLevel
     /\ Len(stimuli) >= 2 /\ DistinctIds(stimuli))
    => /\ Len(gameSequence) = gameLength
       /\ \A i \in nLevel .. (gameLength - 1) :
              balancedTurnTypes[i - nLevel + 1]
                  <=> (At(gameSequence, i) = At(gameSequence, i - nLevel))

\* a sequence with match and non-match positions has been returned
C10_Witness ==
    /\ pc = "done" /\ gameLength >= nLevel + 4
    /\ Len(stimuli) >= 2 /\ DistinctIds(stimuli)
    /\ Len(gameSequence) = gameLength
    /\ \E i, j \in nLevel .. (gameLength - 1) :
           /\ At(gameSequence, i) = At(gameSequence, i - nLevel)
           /\ At(gameSequence, j) # At(gameSequence, j - nLevel)

\* the length of the longest run of equal consecutive values of arr
RunFrom(arr, i) ==
    LET ends == {j \in i .. Len(arr) : \A k \in i .. j : arr[k] = arr[i]}
    IN  Cardinality(ends)

LongestRun(arr) ==
    IF Len(arr) = 0 THEN 0
    ELSE LET runs == {RunFrom(arr, i) : i \in DOMAIN arr}
         IN  CHOOSE m \in runs : \A r \in runs : r <= m

\* the match / non-match classification of the positions >= n of seq
Classification(seq, n) ==
    [k \in 1 .. Max(0, Len(seq) - n) |-> seq[k + n] = seq[k]]

\* C11: whenever balanceTurnTypes(turnTypes, 3) ends on a pass that made no
\* swap (the cap of 5 passes was not what ended it), its result has no run
\* of more than 4 equal consecutive values, and neither has the match /
\* non-match classification of the returned sequence.
C11_QuietPassLeavesNoLongRun ==
    (pc \in {"rest", "done"} /\ gameLength > nLevel /\ Len(stimuli) >= 2
     /\ BalanceEndsOnQuietPass(turnTypes, 0, BalanceMaxStreak))
    => /\ LongestRun(balancedTurnTypes) <= BalanceMaxStreak + 1
       /\ (pc = "done" /\ DistinctIds(stimuli))
              => LongestRun(Classification(gameSequence, nLevel))
                     <= BalanceMaxStreak + 1

\* the number of TRUE entries of a sequence of booleans
CountTrue(arr) == Cardinality({k \in DOMAIN arr : arr[k]})

\* the integer nearest to 0.33 * r, halves rounded up
RoundedThird(r) ==
    CHOOSE m \in 0 .. r : 100 * m - 50 <= 33 * r /\ 33 * r < 100 * m + 50

\* C12: for gameLength > n and a pool of at least 2 stimuli with distinct
\* ids, the returned sequence has exactly max(1, round(0.33 * (gameLength-n)))
\* positions i >= n whose stimulus equals the one at i-n, whatever the
\* shuffle, the balancing and the random stimulus choices were.
C12_MatchCountIsRoundedThird ==
    (pc = "done" /\ gameLength > nLevel
     /\ Len(stimuli) >= 2 /\ DistinctIds(stimuli))
    => CountTrue(Classification(gameSequence, nLevel))
           = Max(1, RoundedThird(gameLength - nLevel))

\* a sequence with two matches among at least five later positions
C12_Witness ==
    /\ pc = "done" /\ gameLength - nLevel >= 5
    /\ Len(stimuli) >= 2 /\ DistinctIds(stimuli)
    /\ CountTrue(Classification(gameSequence, nLevel)) = 2

\* C13: for every pool with fewer than 2 distinct stimuli (distinct by id)
\* the generator returns the empty sequence.
C13_DegeneratePoolYieldsEmpty ==
    (pc = "done" /\ Cardinality(Range(stimuli)) < 2) => gameSequence = <<>>

\* the stars and the bonus gems of a run of sessions, summed
RECURSIVE StarsOf(_)
StarsOf(ss) ==
    IF Len(ss) = 0 THEN 0 ELSE ss[1].starsToAdd + StarsOf(Tail(ss))

RECURSIVE BonusGemsOf(_)
BonusGemsOf(ss) ==
    IF Len(ss) = 0 THEN 0
    ELSE (IF ss[1].wasPerfectScore THEN 1 ELSE 0) + BonusGemsOf(Tail(ss))

\* totals r with addStars stars and addGems gems added, carried base 10
CascadedOnce(r, addStars, addGems) ==
    LET s == r.stars + addStars
        g == r.gems + addGems + s \div 10
        t == r.trophies + g \div 10
    IN  [stars |-> s % 10, gems |-> g % 10, trophies |-> t % 10,
         perfectScores |-> r.perfectScores + t \div 10]

\* C15: from any starting totals, applying processRewards to two (or more)
\* sessions one after the other gives the newTotal that cascading the
\* accumulated stars and bonus gems once from the same starting totals
\* gives; from {0,0,0,0}, 7 stars without perfect then 8 stars with perfect
\* gives {stars 5, gems 2, trophies 0, perfectScores 0}.
C15_SequentialEqualsAccumulated ==
    /\ Len(sessions) >= 2
           => newTotal = CascadedOnce(startRewards, StarsOf(sessions),
                                      BonusGemsOf(sessions))
    /\ (/\ startRewards = ZeroRewards
        /\ sessions = <<[starsToAdd |-> 7, wasPerfectScore |-> FALSE],
                        [starsToAdd |-> 8, wasPerfectScore |-> TRUE]>>)
           => newTotal = [stars |-> 5, gems |-> 2, trophies |-> 0,
                          perfectScores |-> 0]

\* two sessions whose second one converts at every tier
C15_Witness ==
    /\ Len(sessions) = 2
    /\ sessions[1].starsToAdd > 0 /\ sessions[2].starsToAdd > 0
    /\ sessions[1].wasPerfectScore # sessions[2].wasPerfectScore
    /\ earned.gems > 0 /\ earned.trophies > 0 /\ earned.perfectScores > 0

\* the step is a processRewards call; its arguments and what it returned
ProcessRewardsCalled == lastOp'.op = "processRewards"
CalledStars == sessions'[Len(sessions')].starsToAdd
CalledBonus == IF sessions'[Len(sessions')].wasPerfectScore THEN 1 ELSE 0

\* earned as the claim C16 gives it, from the totals before the call
EarnedAsStated ==
    /\ earned'.stars = CalledStars
    /\ earned'.gems = CalledBonus + (newTotal.stars + CalledStars) \div 10
    /\ earned'.trophies = (newTotal.gems + earned'.gems) \div 10
    /\ earned'.perfectScores = (newTotal.trophies + earned'.trophies) \div 10

\* the three converting tiers of newTotal: the pre-cascade amount modulo 10
LowerTiersModulo ==
    /\ newTotal'.stars = (newTotal.stars + CalledStars) % 10
    /\ newTotal'.gems = (newTotal.gems + earned'.gems) % 10
    /\ newTotal'.trophies = (newTotal.trophies + earned'.trophies) % 10

\* C16 as stated: processRewards returns earned.stars = starsToAdd,
\* earned.gems = bonus + floor((current.stars + starsToAdd)/10),
\* earned.trophies = floor((current.gems + earned.gems)/10),
\* earned.perfectScores = floor((current.trophies + earned.trophies)/10),
\* and each of the four tiers of newTotal is its pre-cascade amount
\* modulo 10.
C16_EveryTierModulo ==
    [][ProcessRewardsCalled
           => /\ EarnedAsStated
              /\ LowerTiersModulo
              /\ newTotal'.perfectScores
                     = (newTotal.perfectScores + earned'.perfectScores) % 10
      ]_vars

\* C16 amended: earned is as stated; stars, gems and trophies of newTotal
\* are their pre-cascade amounts modulo 10, and perfectScores, which
\* converts into nothing, is its pre-cascade amount in full.
C16_EarnedAndTotals ==
    [][ProcessRewardsCalled
           => /\ EarnedAsStated
              /\ LowerTiersModulo
              /\ newTotal'.perfectScores
                     = newTotal.perfectScores + earned'.perfectScores
      ]_vars

\* a call that converted at every tier and left ten or more perfectScores
C16_Witness ==
    /\ Len(sessions) >= 1
    /\ earned.stars > 0 /\ earned.gems > 0 /\ earned.trophies > 0
    /\ earned.perfectScores > 0
    /\ newTotal.perfectScores >= 10

\* the tiers of r are those of normalised totals
TiersInRange(r) ==
    /\ r.stars \in 0 .. 9
    /\ r.gems \in 0 .. 9
    /\ r.trophies \in 0 .. 9
    /\ r.perfectScores >= 0

\* C14: starting from totals {0,0,0,0}, after any sequence of finished
\* games and progress resets the persisted PlayerRewards has stars, gems
\* and trophies in 0..9 and perfectScores >= 0.
C14_PersistedTiersInRange ==
    /\ TiersInRange(playerRewards)
    /\ TiersInRange(savedState.playerRewards)

\* finished games have converted trophies into a perfect score and left
\* stars and gems behind
C14_Witness ==
    /\ lastOp.op = "handleGameEnd"
    /\ savedState.playerRewards.perfectScores >= 1
    /\ savedState.playerRewards.gems >= 1
    /\ savedState.playerRewards.stars >= 1

\* the step is a handleGameEnd call
GameEndCalled == lastOp'.op = "handleGameEnd"

\* C17: calculateStars returns 0 when score <= 0 and
\* floor(score / (5 * 10 * 2^(n-1))) otherwise; for n = 1 the scores 0 and
\* 49 give 0 stars, 50 gives 1 and 249 gives 4.
C17_StarsFromScore ==
    lastOp.op = "handleGameEnd"
    => /\ starsEarned = IF stats.score <= 0 THEN 0
                        ELSE stats.score \div (5 * 10 * Pow2(stats.nLevel - 1))
       /\ stats.nLevel = 1
              => /\ stats.score = 0 => starsEarned = 0
                 /\ stats.score = 49 => starsEarned = 0
                 /\ stats.score = 50 => starsEarned = 1
                 /\ stats.score = 249 => starsEarned = 4

\* a game of 249 points at n = 1 has ended
C17_Witness ==
    /\ lastOp.op = "handleGameEnd"
    /\ stats.nLevel = 1 /\ stats.score = 249
    /\ starsEarned = 4

\* the value of totals, in stars
Value(r) == r.stars + 10 * r.gems + 100 * r.trophies + 1000 * r.perfectScores

\* C18: at game end the +1 gem bonus is applied exactly when the session
\* had zero incorrect presses, a score > 0 and ran to completion: the
\* persisted totals gain the stars earned plus one gem in that case and the
\* stars earned alone otherwise; with no star earned and no perfect game
\* the totals are left as they were.
C18_BonusExactlyWhenPerfect ==
    [][GameEndCalled
           => LET perfect == /\ stats'.incorrectPresses = 0
                             /\ stats'.score > 0
                             /\ stats'.gameCompleted
              IN  /\ wasPerfect' = perfect
                  /\ Value(playerRewards')
                         = Value(playerRewards) + starsEarned'
                               + (IF perfect THEN 10 ELSE 0)
                  /\ (starsEarned' = 0 /\ ~perfect)
                         => playerRewards' = playerRewards
                  /\ savedState'.playerRewards = playerRewards'
      ]_vars

\* a perfect game too short of points for a star has left its bonus gem
C18_Witness ==
    /\ lastOp.op = "handleGameEnd"
    /\ wasPerfect /\ starsEarned = 0
    /\ savedState.playerRewards.gems >= 1

\* C19: checkAchievements never returns an id that is already in the
\* unlocked map, so between two progress resets each achievement id is
\* reported as newly unlocked at most once.
C19_NoRepeatedUnlock ==
    [][GameEndCalled
           => \A id \in Range(justUnlocked') :
                  /\ unlockedAchievements[id] = Absent
                  /\ reportCount'[id] = 1
                  /\ id \in Range(newlyUnlocked')
      ]_vars

\* a second completed game has ended without first_game being reported
\* again
C19_Witness ==
    /\ lastOp.op = "handleGameEnd"
    /\ stats.gameCompleted
    /\ "first_game" \notin Range(justUnlocked)
    /\ unlockedAchievements["first_game"] # Absent
    /\ reportCount["first_game"] = 1

\* the rule of each achievement that is not of type action, by its category
\* and its goal in ALL_ACHIEVEMENTS
CategoryRuleHolds(id, st) ==
    CASE id = "first_game"        -> st.gameCompleted
      [] id = "score_500"         -> st.score >= 500
      [] id = "streak_5"          -> st.maxStreak >= 5
      [] id = "streak_10"         -> st.maxStreak >= 10
      [] id = "n2_master"         ->
             st.nLevel = 2 /\ st.score >= 400 /\ st.gameCompleted
      [] id = "n3_pro"            ->
             st.nLevel = 3 /\ st.score >= 800 /\ st.gameCompleted
      [] id = "perfect_precision" ->
             st.gameCompleted /\ st.incorrectPresses = 0

\* the index of id in ALL_ACHIEVEMENTS
DefinitionIndex(id) ==
    CHOOSE k \in DOMAIN ALL_ACHIEVEMENTS : ALL_ACHIEVEMENTS[k].id = id

\* C20: for every stats and every unlocked map, an achievement that is not
\* yet unlocked and not of type action is in the result of
\* checkAchievements iff its category rule holds; the result lists its ids
\* in definition order without duplicates; with nothing unlocked and stats
\* {score 500, maxStreak 5, incorrectPresses 0, gameCompleted, n = 1} it
\* contains score_500, streak_5 and perfect_precision.
C20_ResultFollowsCategoryRules ==
    lastOp.op = "checkAchievements"
    => /\ \A id \in AchievementIds \ {"ai_explorer"} :
              unlockedAchievements[id] = Absent
                  => (id \in Range(justUnlocked)
                          <=> CategoryRuleHolds(id, stats))
       /\ \A i, j \in DOMAIN justUnlocked :
              i < j => DefinitionIndex(justUnlocked[i])
                           < DefinitionIndex(justUnlocked[j])
       /\ (/\ unlockedAchievements = NoneUnlocked
           /\ stats = [score |-> 500, nLevel |-> 1, maxStreak |-> 5,
                       incorrectPresses |-> 0, gameCompleted |-> TRUE])
              => {"score_500", "streak_5", "perfect_precision"}
                     \subseteq Range(justUnlocked)

\* the example's call has returned its four ids in definition order
C20_Witness ==
    /\ lastOp.op = "checkAchievements"
    /\ unlockedAchievements = NoneUnlocked
    /\ stats = [score |-> 500, nLevel |-> 1, maxStreak |-> 5,
                incorrectPresses |-> 0, gameCompleted |-> TRUE]
    /\ justUnlocked = <<"first_game", "score_500", "streak_5",
                        "perfect_precision">>

\* C21: checkAchievements never returns the id of the achievement of type
\* action, ai_explorer, whatever the stats and the unlocked map are; that id
\* enters the unlocked map only by a handleAIFetch call.
C21_ActionOnlyByAIFetch ==
    [][/\ GameEndCalled => "ai_explorer" \notin Range(justUnlocked')
       /\ (/\ unlockedAchievements["ai_explorer"] = Absent
           /\ unlockedAchievements'["ai_explorer"] # Absent)
              => lastOp'.op = "handleAIFetch"
      ]_vars

\* a game with points has unlocked achievements while ai_explorer stayed
\* out of the map
C21_Witness ==
    /\ lastOp.op = "handleGameEnd"
    /\ stats.score >= 1
    /\ Len(justUnlocked) > 0
    /\ unlockedAchievements["ai_explorer"] = Absent

Prefix(seq, k) == [i \in 1 .. k |-> seq[i]]

\* C23: the review history is exactly the completed prefix of the sequence:
\* before game over it holds the first turn stimuli, once the session is over
\* it holds all gameLength of them; no position is appended twice and none is
\* skipped.
C23_HistoryIsCompletedPrefix ==
    Len(gameSequence) # 0 =>
        IF isGameOver
        THEN history = gameSequence
        ELSE /\ turn <= Len(gameSequence)
             /\ history = Prefix(gameSequence, turn)

\* C24: the 0-based turn index stays within 0 .. gameLength - 1 (the 1-based
\* turn shown is between 1 and gameLength, the progress at most 100 percent).
C24_TurnWithinGame ==
    Len(gameSequence) # 0 => 0 <= turn /\ turn <= gameLength - 1

\* C25: once isGameOver is true the final statistics are frozen: no step,
\* whether a handleMatch call or a pending timer callback, changes score,
\* currentStreak, maxStreak or incorrectPresses.
C25_StatsFrozenAfterGameOver ==
    [][ isGameOver => UNCHANGED <<score, currentStreak, maxStreak,
                                  incorrectPresses>> ]_vars

\* handleMatch was called after the turn timer ended the session on an
\* unanswered last position: of the guards of handleMatch only isPaused holds
C25_Witness ==
    /\ isGameOver
    /\ lastOp.op = "handleMatch"
    /\ ~userResponded
    /\ turn >= nLevel
    /\ score > 0

\* a delayed advance of the current position is pending
ReviewAdvancePending ==
    \E k \in DOMAIN timers :
        timers[k].kind = "review" /\ timers[k].capTurn = turn

\* C26: the review overlay flag is true only between an incorrect outcome on
\* the current position and the advance that follows it: whenever a new
\* position is entered showReviewHistory is false, and whenever it is true a
\* delayed advance for the current position is still pending.
C26_ReviewOnlyUntilAdvance ==
    [][ /\ turn' # turn => ~showReviewHistory'
        /\ showReviewHistory' => ReviewAdvancePending'
      ]_vars

\* no turn timer is armed
NoTurnTimerArmed == \A k \in DOMAIN timers : timers[k].kind # "turn"

\* C27 as stated: with a non-empty sequence and fair timers a session that is
\* not paused forever (it leaves the paused state again and again) eventually
\* reaches isGameOver = TRUE, for every pattern of responses.
C27_OverUnlessPausedForever ==
    (Len(gameSequence) # 0 /\ []<>(gameState # "paused")) => <>isGameOver

\* C27 amended: with a non-empty sequence and fair timers a session whose
\* pauses come to an end (from some moment on it is not paused) eventually
\* reaches isGameOver = TRUE, for every pattern of responses; and whenever
\* isGameOver is TRUE no turn timer is armed.
C27_OverOncePausesEnd ==
    /\ (Len(gameSequence) # 0 /\ <>[](gameState # "paused")) => <>isGameOver
    /\ [](isGameOver => NoTurnTimerArmed)

\* a session with a missed match, a right and a wrong response has reached
\* its end
C27_Witness ==
    /\ isGameOver
    /\ gameState = "over"
    /\ NoTurnTimerArmed
    /\ score > 0
    /\ incorrectPresses > 0
    /\ \E p \in DOMAIN missCount : missCount[p] >= 1

\* C28: on a position below n nothing is scored: the turn timer's elapse
\* takes the no-op branch, sets the result to neutral and advances at once
\* leaving score, currentStreak and incorrectPresses alone, and a handleMatch
\* call leaves them alone too; so they are all 0 on every position below n
\* and still 0 in the state in which position n is entered.
C28_NothingScoredBelowN ==
    [][ /\ (lastOp'.op = "turnTimer" /\ lastOp'.pos < nLevel)
            => /\ lastOp'.branch = "noop"
               /\ lastResult' = "neutral"
               /\ Advanced
               /\ UNCHANGED <<score, currentStreak, incorrectPresses>>
        /\ (lastOp'.op = "handleMatch" /\ turn < nLevel)
            => UNCHANGED <<score, currentStreak, incorrectPresses>>
        /\ turn < nLevel
            => score' = 0 /\ currentStreak' = 0 /\ incorrectPresses' = 0
      ]_vars

\* position n has just been entered by the timer's elapse on position n - 1,
\* a position the timer had itself advanced to
C28_Witness ==
    /\ nLevel >= 2
    /\ turn = nLevel
    /\ lastOp.op = "turnTimer"
    /\ lastOp.pos = nLevel - 1
    /\ timerElapsedOn = 0 .. (nLevel - 1)
    /\ score = 0 /\ currentStreak = 0 /\ incorrectPresses = 0

\* C29: when the generated sequence is empty (an empty pool, or a pool too
\* small to generate from) the session never progresses: no timer is armed,
\* turn stays 0, isGameOver stays FALSE, score stays 0, the history stays
\* empty and every handleMatch call is ignored.
C29_EmptySequenceNeverProgresses ==
    Len(gameSequence) = 0 =>
        /\ timers = <<>>
        /\ turn = 0
        /\ ~isGameOver
        /\ score = 0
        /\ history = <<>>
        /\ matchAcceptedOn = {}
        /\ lastOp.op = "handleMatch" => lastOp.branch = "ignored"

\* handleMatch was called in a started session whose pool of one stimulus
\* gave an empty sequence
C29_Witness ==
    /\ Len(gameSequence) = 0
    /\ Len(stimuli) = 1
    /\ gameState = "playing"
    /\ lastOp.op = "handleMatch"

\* C30: the turn log scoreHistory is append-only and indexed by turn: its
\* first entry is (turn 0, score 0, neutral), a step never changes or removes
\* an entry that exists, and the turn fields of its entries are strictly
\* increasing.
C30_TurnLogAppendOnly ==
    /\ [](/\ Len(scoreHistory) >= 1
          /\ scoreHistory[1] = [turn |-> 0, score |-> 0, result |-> "neutral"]
          /\ \A i, j \in DOMAIN scoreHistory :
                 i < j => scoreHistory[i].turn < scoreHistory[j].turn)
    /\ [][ /\ Len(scoreHistory') >= Len(scoreHistory)
           /\ \A k \in DOMAIN scoreHistory : scoreHistory'[k] = scoreHistory[k]
         ]_vars

\* the effect has run for a score that changed on a turn already logged: the
\* log of three entries kept the score the turn was entered with
C30_Witness ==
    /\ Len(scoreHistory) >= 3
    /\ scoreHistory[Len(scoreHistory)].turn = turn
    /\ scoreHistory[Len(scoreHistory)].score # score
    /\ lastOp.op = "handleMatch"

\* C31: when the session is ended by handleContinue, the turn log handed to
\* the host together with GameStats ends with an entry whose cumulative score
\* is the final score.
C31_LogEndsWithFinalScore ==
    lastOp.op = "handleGameEnd"
        => /\ Len(lastGameHistory) >= 1
           /\ lastGameHistory[Len(lastGameHistory)].score = stats.score

\* C32: maxStreak is the running maximum of currentStreak: it starts equal to
\* it, never decreases, and after every step it is the larger of its old value
\* and the new currentStreak, so it is always the largest value currentStreak
\* has taken; the GameStats handed over at game over carry that value.
C32_MaxStreakIsRunningMaximum ==
    /\ [](maxStreak >= currentStreak)
    /\ [][ /\ maxStreak' >= maxStreak
           /\ maxStreak' = Max(maxStreak, currentStreak')
         ]_vars
    /\ [](lastOp.op = "handleGameEnd" => stats.maxStreak = maxStreak)

\* a finished session handed over after a streak of 2 was broken
C32_Witness ==
    /\ lastOp.op = "handleGameEnd"
    /\ stats.gameCompleted
    /\ stats.maxStreak >= 2
    /\ currentStreak = 0

\* C33: in a session with gameLength > n on a pool of at least 2 distinct
\* stimuli, game over with incorrectPresses = 0 implies a final score > 0;
\* hence when handleGameEnd unlocks the precision achievement for such a
\* session it also grants the perfect-game bonus.
C33_NoIncorrectImpliesPositiveScore ==
    (gameLength > nLevel /\ Cardinality(Range(stimuli)) >= 2)
        => /\ (isGameOver /\ incorrectPresses = 0) => score > 0
           /\ (lastOp.op = "handleGameEnd"
               /\ "perfect_precision" \in Range(justUnlocked))
                  => wasPerfect

\* a session without incorrect press was handed over: the precision
\* achievement and the bonus gem are both granted
C33_Witness ==
    /\ gameLength > nLevel
    /\ Cardinality(Range(stimuli)) >= 2
    /\ lastOp.op = "handleGameEnd"
    /\ stats.incorrectPresses = 0
    /\ "perfect_precision" \in Range(justUnlocked)
    /\ wasPerfect
    /\ playerRewards.gems >= 1

\* C34: an accepted explicit no-match signal on a position that is no true
\* match is scored like a correct match signal: with s the streak before it,
\* score grows by 10*2^(n-1) + s*5*n, the streak becomes s+1 and
\* onResponse(true, s+1) is emitted; every accepted signal changes score or
\* incorrectPresses, and only the timer elapsing unanswered on a position that
\* is no true match leaves score and streak as they are.
C34_NoMatchSignalScoresAsCorrect ==
    [][ /\ (/\ lastOp'.op = "handleMatch"
            /\ lastOp'.signal = "no-match"
            /\ Awaitable
            /\ ~GroundTruth)
               => /\ score' = score + 10 * Pow2(nLevel - 1)
                                    + currentStreak * 5 * nLevel
                  /\ currentStreak' = currentStreak + 1
                  /\ incorrectPresses' = incorrectPresses
                  /\ lastResult' = "correct"
                  /\ emitted' = Append(emitted, <<TRUE, currentStreak + 1>>)
        /\ (lastOp'.op = "handleMatch" /\ Awaitable)
               => \/ score' > score
                  \/ incorrectPresses' = incorrectPresses + 1
        /\ (TimerElapsesUnanswered /\ ~(turn >= nLevel /\ GroundTruth))
               => UNCHANGED <<score, currentStreak, incorrectPresses,
                              emitted>>
      ]_vars

\* a second consecutive no-match signal has earned its combo bonus
C34_Witness ==
    /\ lastOp.op = "handleMatch"
    /\ lastOp.signal = "no-match"
    /\ lastOp.branch = "correct"
    /\ currentStreak >= 2
    /\ \A k \in DOMAIN emitted : emitted[k][1]
    /\ At(gameSequence, turn) # At(gameSequence, turn - nLevel)
    /\ At(gameSequence, turn - 1) # At(gameSequence, turn - 1 - nLevel)

\* the first k entries of seq are pairwise distinct
InitialBlockDistinct(seq, k) ==
    \A i, j \in 1 .. k :
        (i < j /\ j <= Len(seq)) => seq[i] # seq[j]

\* C35: when the pool holds at least n distinct ids, the first n positions of
\* the sequence are pairwise distinct, while the generator builds them and in
\* the sequence it returns.
C35_InitialBlockDistinct ==
    Cardinality(Range(stimuli)) >= nLevel
        => /\ InitialBlockDistinct(sequence, nLevel)
           /\ InitialBlockDistinct(gameSequence, nLevel)

\* the generator has returned a sequence for n = 2 from a pool of three
\* entries with two distinct ids
C35_Witness ==
    /\ pc = "done"
    /\ nLevel = 2
    /\ Len(stimuli) = 3
    /\ Cardinality(Range(stimuli)) = 2
    /\ Len(gameSequence) >= 3
    /\ gameSequence[1] # gameSequence[2]

\* GameScreen was torn down by handleExit
TornDown == screen = "START" /\ gameState = "paused"

\* C36: after the game screen is torn down mid-game by exit, every timer of
\* the session is cancelled (the turn timer, the post-correct advance and the
\* review advance), and no timer callback of the session runs any more.
C36_NoCallbackAfterTeardown ==
    /\ [](TornDown => timers = <<>>)
    /\ [][ TornDown => lastOp'.op # "orphanAdvance" ]_vars

\* C37: in the hook of src/hooks/useGameLogic.ts, a turn timer that elapses
\* with no response on a position that is not a true match resets
\* currentStreak to 0 and leaves score and incorrectPresses unchanged; on a
\* position below n the unanswered timer always takes this branch.
C37_NoOpResetsStreak ==
    [][ /\ (TimerElapsesUnanswered /\ lastOp'.branch = "noop")
            => /\ currentStreak' = 0
               /\ UNCHANGED <<score, incorrectPresses>>
        /\ (lastOp'.op = "turnTimer" /\ lastOp'.pos < nLevel)
            => /\ lastOp'.branch = "noop"
               /\ currentStreak' = 0
               /\ UNCHANGED <<score, incorrectPresses>>
        /\ (TimerElapsesUnanswered /\ ~TimerActualMatch(lastOp'.pos))
            => lastOp'.branch = "noop"
      ]_vars

\* a no-op has reset a streak of two right responses that no wrong response
\* or missed match had broken
C37_Witness ==
    /\ lastOp.op = "turnTimer" /\ lastOp.branch = "noop"
    /\ currentStreak = 0
    /\ maxStreak >= 2
    /\ incorrectPresses = 0
    /\ score > 0

\* the arguments of the processRewards call a step has made
LastSession == sessions'[Len(sessions')]

\* C38: processRewards conserves value: with a star worth 1, a gem 10, a
\* trophy 100 and a perfect score 1000, the value of newTotal is the value of
\* currentRewards plus starsToAdd plus 10 when wasPerfectScore.
C38_ValueConserved ==
    [][ ProcessRewardsCalled
        => Value(newTotal') = Value(newTotal) + LastSession.starsToAdd
                                  + 10 * (IF LastSession.wasPerfectScore
                                          THEN 1 ELSE 0)
      ]_vars

\* a perfect session whose stars have cascaded through every tier
C38_Witness ==
    /\ lastOp.op = "processRewards"
    /\ sessions[Len(sessions)].wasPerfectScore
    /\ sessions[Len(sessions)].starsToAdd >= 1
    /\ earned.gems >= 2
    /\ earned.trophies >= 1
    /\ earned.perfectScores >= 1

CountFalse(arr) == Cardinality({k \in DOMAIN arr : ~arr[k]})

\* C39: balanceTurnTypes returns an array of the length of its input that
\* holds as many true and as many false values as the input, and it leaves
\* the input array as it was, for every input and every maxStreak >= 1.
C39_BalanceIsPermutation ==
    [][ lastOp'.op = "balanceTurnTypes"
        => /\ Len(balancedTurnTypes') = Len(turnTypes)
           /\ CountTrue(balancedTurnTypes') = CountTrue(turnTypes)
           /\ CountFalse(balancedTurnTypes') = CountFalse(turnTypes)
           /\ turnTypes' = turnTypes
      ]_vars

\* a call has returned an array that differs from its input: it has swapped
C39_Witness ==
    /\ pc = "returned"
    /\ lastOp.op = "balanceTurnTypes"
    /\ balancedTurnTypes # turnTypes
    /\ CountTrue(turnTypes) >= 2
    /\ CountFalse(turnTypes) >= 2

\* C40: the processRewards of rewardService.ts, which adds the bonus gem
\* before the stars are converted, and the processRewards of part_008, which
\* adds it after, return the same earned and the same newTotal for the same
\* arguments.
C40_VariantsAgree ==
    [][ ProcessRewardsCalled
        => LET r == ProcessRewardsVariant(newTotal, LastSession.starsToAdd,
                                          LastSession.wasPerfectScore)
           IN  r.earned = earned' /\ r.newTotal = newTotal'
      ]_vars

\* a perfect session in which the stars were converted, the bonus gem was
\* added and the gems cascaded into a trophy
C40_Witness ==
    /\ lastOp.op = "processRewards"
    /\ sessions[Len(sessions)].wasPerfectScore
    /\ earned.gems = 2
    /\ earned.trophies = 1
    /\ newTotal.gems = 1

=============================================================================
